---- MODULE Spec2Model ----
(***************************************************************************)
(* A model of the tradingview-webhooks-bot order core:                     *)
(*   - TastyTrade.get_webhook_data / Schwab.get_webhook_data (validator)   *)
(*   - Event.trigger / Action.set_data / TastyTrade.run (webhook handling) *)
(*   - TastytradeSession._listen_events (streaming aggregation)            *)
(*   - TastytradeSession.get_positions (task group + analytics pass)       *)
(*   - TastytradeSession.send_openinng_option_order /                      *)
(*     send_closing_option_order (argument checks and order submission)    *)
(*   - TastytradeSession.close_all_option_positions                        *)
(*   - TastytradeSession.get_session (the cached session)                  *)
(* Each part has its own specification over the shared variables; the      *)
(* variables of the other parts stay at their idle values.                 *)
(***************************************************************************)
EXTENDS Integers, Sequences, FiniteSets, TLC

VARIABLES
    \* validator
    vinput,      \* the payload as it was handed to set_data
    vpayload,    \* the payload dict object (get_webhook_data edits it in place)
    vresult,     \* outcome of get_webhook_data, NoResult before the call
    vpc,         \* "set" | "validated" | "revalidated"
    vnext,       \* outcome of get_webhook_data in the next linked action
    \* _listen_events, one call per event type
    lsymbols,    \* symbols argument of the call
    lretry,      \* the call's local variable retry
    ldata,       \* data_dict: symbol -> last event value, 0 when no entry
    lpc,         \* "idle" | "connecting" | "listening" | "sleeping" | "returned" | "raised"
    lresult,     \* what the call returned
    lattempts,   \* subscribe-and-wait attempts started by the call
    lfailed,     \* whether an attempt of the call ended in an exception
    lbudget,     \* the retry argument the call was given
    silent,      \* symbols the stream never delivers an event for
    streamValues, \* the event values the stream delivers
    \* get_positions
    gpositions,  \* instrument types of the broker positions, in sorted order
    gpc,         \* "idle" | "called" | "group" | "metrics" | "done" | "failed"
    gfailure,    \* the exception get_positions ended with, "none" otherwise
    ganalytics,  \* whether the per-position analytics pass was started
    gincluded,   \* indexes of the positions appended to sums.positions
    gresult,     \* "none" | "list" (the bare []) | "summary" (a PositionsSummary)
    \* the analytics loop of get_positions, iteration by iteration
    gtoday,      \* today_in_new_york()
    gindex,      \* the loop's position in positions, from 1
    gsums,       \* sums.positions: the Position records appended so far
    gtotals,     \* the scalar fields of sums
    \* get_positions called again on the same account
    gbroker,     \* per position: the record the broker reports for it
    gcalls,      \* the calls made so far: date, records as left, summary returned
    \* webhook requests through Event.trigger and TastyTrade.run
    raw_data,    \* _raw_data of the registered action: the request whose payload
                 \* object it references, 0 for None
    winput,      \* per request: the payload as received
    wpayload,    \* per request: its payload dict object
    wpc,         \* per request: "pending" | "positions" | "ordering" | "done" | "raised"
    wdata,       \* per request: the local variable data of run
    worder,      \* per request: the arguments run passed to send_openinng_option_order
    wreport,     \* per request: what run reported through log_ntfy
    wmatch,      \* per request: how the closing checks of run found the positions
    \* send_openinng_option_order / send_closing_option_order
    oreq,        \* the arguments of the call
    opc,         \* "idle" | "called" | "resolving" | "priced" | "done" | "raised"
    odry,        \* the broker's answer to the dry run: "none" | "ok" | "error"
    ocalls,      \* the place_order calls made, in order
    osubchain,   \* how the expiration sub-chain was picked: "none" | "expiration" | "dte"
    oreports,    \* the log_ntfy reports made, in order
    \* send_openinng_option_order between the argument checks and the dry run
    rreq,        \* the arguments and the expiration sub-chain the step works on
    rpc,         \* position in the function, "idle" when no call is modelled
    rout,        \* the locals the steps have assigned so far
    \* close_all_option_positions
    cpc,         \* "idle" | "loop" | "done"
    cindex,      \* the loop's position in positions, from 1
    csent,       \* the place_order calls made, each with its position's index
    \* TastytradeSession.get_session
    ssession,    \* TastytradeSession.session: the number of the Session object
    saccounts,   \* TastytradeSession.accounts: the session the list was loaded with
    slast        \* the last call of get_session: what it found and how it ended

valVars == <<vinput, vpayload, vresult, vpc, vnext>>
listenVars ==
    <<lsymbols, lretry, ldata, lpc, lresult, lattempts, lfailed, lbudget,
      silent, streamValues>>
posVars == <<gpositions, gpc, gfailure, ganalytics, gincluded, gresult>>
loopVars == <<gtoday, gindex, gsums, gtotals, gbroker, gcalls>>

webVars == <<raw_data, winput, wpayload, wpc, wdata, worder, wreport, wmatch>>
orderVars == <<oreq, opc, odry, ocalls, oreports, osubchain>>
resolveVars == <<rreq, rpc, rout>>
closeVars == <<cpc, cindex, csent>>
sessVars == <<ssession, saccounts, slast>>

vars ==
    <<valVars, listenVars, posVars, loopVars, webVars, orderVars, resolveVars,
      closeVars, sessVars>>

notValidate  == <<listenVars, posVars, webVars, orderVars, resolveVars, loopVars,
      closeVars, sessVars>>
notListen    == <<valVars, posVars, webVars, orderVars, resolveVars, loopVars,
      closeVars, sessVars>>
notPositions == <<valVars, loopVars, webVars, orderVars, resolveVars,
      closeVars, sessVars>>
notWebhook   == <<valVars, listenVars, posVars, orderVars, resolveVars, loopVars,
      closeVars, sessVars>>
notOrder     == <<valVars, listenVars, posVars, webVars, resolveVars, loopVars,
      closeVars, sessVars>>
notResolve   == <<valVars, listenVars, posVars, webVars, orderVars, loopVars,
      closeVars, sessVars>>

--------------------------------------------------------------------------
(* Webhook payloads.  A payload is a dict; each key is either absent or    *)
(* present with a value of one of a few kinds that the validator tells     *)
(* apart.                                                                  *)

ABSENT == "absent"

Fields ==
    {"key", "ticker", "price", "timestamp", "option_type", "action",
     "quantity", "expiration", "dte", "strike", "delta"}

\* 'ok': a string/number the conversion accepts; 'bad': a string it rejects;
\* 'typed': the converted object that get_webhook_data stored back.
KeyKinds        == {ABSENT, "present"}
TickerKinds     == {ABSENT, "ok"}
PriceKinds      == {ABSENT, "ok", "bad"}
TimestampKinds  == {ABSENT, "ok", "bad", "typed"}
OptionTypeKinds == {ABSENT, "call", "put", "bad", "empty", "CALL", "PUT"}
ActionKinds     == {ABSENT, "BTO", "STO", "BTC", "STC", "BUY", "SELL", "bad"}
QuantityKinds   == {ABSENT, "pos", "nonpos", "bad"}
ExpirationKinds == {ABSENT, "ok", "bad", "typed"}
DteKinds        == {ABSENT, "ok", "bad"}
StrikeKinds     == {ABSENT, "ok", "bad"}
DeltaKinds      == {ABSENT, "ok", "bad"}

\* members of OrderDirection (tastytrade.py:47-53, schwab.py:20-26)
OrderDirection == {"BTO", "STO", "BTC", "STC", "BUY", "SELL"}

\* dataclass fields of WebHookData (tastytrade.py:82-93)
WebHookData ==
    {"ticker", "price", "timestamp", "option_type", "action", "quantity",
     "strike", "delta", "expiration", "dte"}

Has(p, f) == p[f] # ABSENT

\* an empty dict is falsy
IsEmpty(p) == \A f \in Fields : p[f] = ABSENT

--------------------------------------------------------------------------
(* get_webhook_data, statement by statement.  The running state is         *)
(* [p: the dict, msgs: err_msgs, exc: the exception that escaped or        *)
(* "none"].                                                                *)

AddMsg(st, m) == [st EXCEPT !.msgs = Append(@, m)]
Raise(st, e)  == [st EXCEPT !.exc = e]
SetField(st, f, k) == [st EXCEPT !.p = [@ EXCEPT ![f] = k]]

\* data = self.validate_data(): raises ValueError on a falsy payload
ValidateData(p) ==
    IF IsEmpty(p)
    THEN [p |-> p, msgs |-> <<"No data provided to action">>, exc |-> "ValueError"]
    ELSE [p |-> p, msgs |-> <<>>, exc |-> "none"]

\* if 'key' in data: del data['key']
StripKey(st) ==
    IF st.exc # "none" THEN st ELSE SetField(st, "key", ABSENT)

CheckTicker(st) ==
    IF st.exc # "none" THEN st
    ELSE IF ~Has(st.p, "ticker") THEN AddMsg(st, "Ticker not found in data.")
    ELSE st

\* Decimal(x) raises decimal.InvalidOperation (an ArithmeticError, not a
\* ValueError) on a non-numeric string, so 'except ValueError' lets it escape.
ParsePrice(st) ==
    IF st.exc # "none" THEN st
    ELSE CASE st.p["price"] = ABSENT -> AddMsg(st, "Price not found in data.")
           [] st.p["price"] = "bad"  -> Raise(st, "InvalidOperation")
           [] OTHER                  -> st

\* datetime.fromisoformat: ValueError on a bad string (caught), TypeError on a
\* datetime object (not caught)
ParseTimestamp(st) ==
    IF st.exc # "none" THEN st
    ELSE CASE st.p["timestamp"] = ABSENT  -> AddMsg(st, "Timestamp not found in data.")
           [] st.p["timestamp"] = "bad"   -> AddMsg(st, "Invalid timestamp format")
           [] st.p["timestamp"] = "typed" -> Raise(st, "TypeError")
           [] OTHER                       -> SetField(st, "timestamp", "typed")

\* str(data['option_type']).upper()[0]: IndexError on '', first letter 'O' for
\* an OptionType member already stored
ParseOptionType(st) ==
    IF st.exc # "none" THEN st
    ELSE CASE st.p["option_type"] = ABSENT  ->
                AddMsg(st, "Option type not found in data. Expected: CALL | PUT")
           [] st.p["option_type"] = "empty" -> Raise(st, "IndexError")
           [] st.p["option_type"] = "call"  -> SetField(st, "option_type", "CALL")
           [] st.p["option_type"] = "put"   -> SetField(st, "option_type", "PUT")
           [] OTHER                         -> AddMsg(st, "Invalid option type")

CheckAction(st) ==
    IF st.exc # "none" THEN st
    ELSE CASE st.p["action"] = ABSENT -> AddMsg(st, "Trade action not found in data.")
           [] st.p["action"] \notin OrderDirection -> AddMsg(st, "Invalid trade action")
           [] OTHER -> st

ParseQuantity(st) ==
    IF st.exc # "none" THEN st
    ELSE CASE st.p["quantity"] = ABSENT   -> AddMsg(st, "Quantity not found in data.")
           [] st.p["quantity"] = "nonpos" -> AddMsg(st, "Quantity must be a positive integer")
           [] st.p["quantity"] = "bad"    -> AddMsg(st, "Quantity is not an integer")
           [] OTHER                       -> st

ParseExpiration(st) ==
    IF st.exc # "none" THEN st
    ELSE CASE st.p["expiration"] = ABSENT  -> st
           [] st.p["expiration"] = "bad"   -> AddMsg(st, "Invalid expiration format")
           [] st.p["expiration"] = "typed" -> Raise(st, "TypeError")
           [] OTHER                        -> SetField(st, "expiration", "typed")

ParseDte(st) ==
    IF st.exc # "none" THEN st
    ELSE IF st.p["dte"] = "bad" THEN AddMsg(st, "dte is not an integer")
    ELSE st

CheckExpirationOrDte(st) ==
    IF st.exc # "none" THEN st
    ELSE IF ~Has(st.p, "expiration") /\ ~Has(st.p, "dte")
         THEN AddMsg(st, "Either expiration or dte must be provided.")
    ELSE st

ParseStrike(st) ==
    IF st.exc # "none" THEN st
    ELSE IF st.p["strike"] = "bad" THEN Raise(st, "InvalidOperation")
    ELSE st

ParseDelta(st) ==
    IF st.exc # "none" THEN st
    ELSE IF st.p["delta"] = "bad" THEN AddMsg(st, "Delta is not an integer")
    ELSE st

\* data['action'] raises KeyError when the key is missing
ActionLookup(st) ==
    IF st.exc # "none" THEN st
    ELSE IF ~Has(st.p, "action") THEN Raise(st, "KeyError")
    ELSE st

OpeningStrikeDeltaDropped(st) == st

OpeningStrikeDelta(st) ==
    IF st.exc # "none" \/ st.p["action"] \notin {"STO", "BTO"} THEN st
    ELSE IF ~Has(st.p, "strike") /\ ~Has(st.p, "delta")
         THEN AddMsg(st, "Either strike or delta must be provided for opening positions.")
    ELSE st

OpeningExpirationDte(st) ==
    IF st.exc # "none" \/ st.p["action"] \notin {"STO", "BTO"} THEN st
    ELSE IF ~Has(st.p, "expiration") /\ ~Has(st.p, "dte")
         THEN AddMsg(st, "Either expiration or dte must be provided for opening positions.")
    ELSE st

ClosingStrike(st) ==
    IF st.exc # "none" \/ st.p["action"] \notin {"STC", "BTC"} THEN st
    ELSE IF ~Has(st.p, "strike")
         THEN AddMsg(st, "Strike must be provided for closing positions.")
    ELSE st

ClosingExpiration(st) ==
    IF st.exc # "none" \/ st.p["action"] \notin {"STC", "BTC"} THEN st
    ELSE IF ~Has(st.p, "expiration")
         THEN AddMsg(st, "Expiration must be provided for closing positions.")
    ELSE st

\* if err_msgs: raise ValueError('\n'.join(err_msgs))
RaiseAggregated(st) ==
    IF st.exc # "none" THEN st
    ELSE IF Len(st.msgs) > 0 THEN Raise(st, "ValueError")
    ELSE st

Checks(p) ==
    RaiseAggregated(ClosingExpiration(ClosingStrike(
    OpeningExpirationDte(OpeningStrikeDelta(ActionLookup(
    ParseDelta(ParseStrike(CheckExpirationOrDte(ParseDte(ParseExpiration(
    ParseQuantity(CheckAction(ParseOptionType(ParseTimestamp(ParsePrice(
    CheckTicker(StripKey(ValidateData(p)))))))))))))))))))

\* exclude_extra_data: the keys of the dict that are WebHookData fields
TypedData(p) == [f \in WebHookData |-> p[f]]

NoData == [f \in WebHookData |-> ABSENT]

\* outcome: "ok" (a WebHookData is returned) or the exception class raised.
\* aggregated: the exception is the ValueError built from err_msgs.
get_webhook_data(p) ==
    LET st == Checks(p)
    IN  [outcome    |-> IF st.exc = "none" THEN "ok" ELSE st.exc,
         aggregated |-> st.exc = "ValueError" /\ ~IsEmpty(p),
         msgs       |-> st.msgs,
         payload    |-> st.p,
         data       |-> IF st.exc = "none" THEN TypedData(st.p) ELSE NoData]

NoResult ==
    [outcome |-> "none", aggregated |-> FALSE, msgs |-> <<>>,
     payload |-> [f \in Fields |-> ABSENT], data |-> NoData]

--------------------------------------------------------------------------
(* TastytradeSession._listen_events(event_type, symbols, retry, delay).    *)

MaxSymbols == 2
MaxRetry == 2
MaxEventValue == 2
MaxPositions == 2

\* retry: int = 5 in the signature of _listen_events
DefaultRetry == 5

\* symbol 0 is 'SPY', the benchmark get_positions subscribes Trade for and the
\* underlying of the equity options; the last symbol is the future that the
\* future options are written on; position i has streamer symbol i
SPY == 0
ES == MaxSymbols + 1
Symbols == 0..(MaxSymbols + 1)
EventTypes == {"Quote", "Greeks", "Summary", "Trade"}

ReturnsNone == [kind |-> "None", events |-> [s \in Symbols |-> 0]]
NotReturned == [kind |-> "pending", events |-> [s \in Symbols |-> 0]]
Dict(d) == [kind |-> "dict", events |-> d]
EmptyDict == [s \in Symbols |-> 0]

Keys(d) == {s \in Symbols : d[s] # 0}

\* async with DXLinkStreamer(...) as streamer: await streamer.subscribe(...)
Subscribe(c) ==
    /\ lpc[c] = "connecting"
    /\ lpc' = [lpc EXCEPT ![c] = "listening"]
    /\ lattempts' = [lattempts EXCEPT ![c] = @ + 1]
    /\ UNCHANGED <<lsymbols, lretry, lbudget, ldata, lresult, lfailed,
                   silent, streamValues, notListen>>

\* if len(data_dict) >= len(symbols): break
Complete(d, syms) == Cardinality(Keys(d)) >= Cardinality(syms)

\* one turn of 'async for data in streamer.listen(event_type)':
\* data_dict[data.event_symbol] = data, then the break test and the return
Deliver(c, s, v) ==
    /\ lpc[c] = "listening"
    /\ s \in lsymbols[c] \ silent
    /\ v \in streamValues
    /\ LET d == [ldata[c] EXCEPT ![s] = v]
       IN  /\ ldata' = [ldata EXCEPT ![c] = d]
           /\ IF Complete(d, lsymbols[c])
              THEN /\ lpc' = [lpc EXCEPT ![c] = "returned"]
                   /\ lresult' = [lresult EXCEPT ![c] = Dict(d)]
              ELSE UNCHANGED <<lpc, lresult>>
    /\ UNCHANGED <<lsymbols, lretry, lbudget, lattempts, lfailed, silent,
                   streamValues, notListen>>

\* an exception inside the try (connecting, subscribing or listening):
\* except Exception as ex: if retry <= 0: raise ex; retry -= 1; await sleep
StreamFail(c) ==
    /\ lpc[c] \in {"connecting", "listening"}
    /\ lfailed' = [lfailed EXCEPT ![c] = TRUE]
    /\ lattempts' = [lattempts EXCEPT ![c] = IF lpc[c] = "connecting" THEN @ + 1 ELSE @]
    /\ IF lretry[c] <= 0
       THEN /\ lpc' = [lpc EXCEPT ![c] = "raised"]
            /\ UNCHANGED lretry
       ELSE /\ lpc' = [lpc EXCEPT ![c] = "sleeping"]
            /\ lretry' = [lretry EXCEPT ![c] = @ - 1]
    /\ UNCHANGED <<lsymbols, lbudget, ldata, lresult, silent, streamValues, notListen>>

\* asyncio.sleep(delay_secs) is the last statement of the handler and of the
\* function: when it returns, the call returns None
WakeUp(c) ==
    /\ lpc[c] = "sleeping"
    /\ lpc' = [lpc EXCEPT ![c] = "returned"]
    /\ lresult' = [lresult EXCEPT ![c] = ReturnsNone]
    /\ UNCHANGED <<lsymbols, lretry, lbudget, ldata, lattempts, lfailed,
                   silent, streamValues, notListen>>

Ended(c) == lpc[c] \in {"returned", "raised"}

ListenStep ==
    \E c \in EventTypes :
        \/ Subscribe(c)
        \/ \E s \in Symbols, v \in 1..MaxEventValue : Deliver(c, s, v)
        \/ StreamFail(c)
        \/ WakeUp(c)

--------------------------------------------------------------------------
(* TastytradeSession.get_positions: the group of three streaming           *)
(* aggregations, then the per-position analytics pass.                     *)

InstrumentTypes ==
    {"EQUITY_OPTION", "FUTURE_OPTION", "EQUITY", "FUTURE", "CRYPTOCURRENCY",
     "UNKNOWN"}

PositionLists ==
    UNION {[1..n -> InstrumentTypes] : n \in 0..MaxPositions}

\* the members of the second asyncio.TaskGroup
Tasks == {"Greeks", "Summary", "Trade"}

Indexes(pos, types) == {i \in 1..Len(pos) : pos[i] \in types}

\* greeks_symbols
GreeksSymbols(pos) == Indexes(pos, {"EQUITY_OPTION", "FUTURE_OPTION"})

\* all_symbols
AllSymbols(pos) ==
         (IF Indexes(pos, {"EQUITY_OPTION"}) # {} THEN {SPY} ELSE {})
    \cup (IF Indexes(pos, {"FUTURE_OPTION"}) # {} THEN {ES} ELSE {})
    \cup Indexes(pos, {"EQUITY", "FUTURE", "CRYPTOCURRENCY"})
    \cup GreeksSymbols(pos)

TaskSymbols(c, pos) ==
    CASE c = "Greeks"  -> GreeksSymbols(pos)
      [] c = "Summary" -> AllSymbols(pos)
      [] c = "Trade"   -> {SPY}
      [] OTHER         -> {}

\* subscripting what _listen_events returned: None[...] is a TypeError, a
\* missing key a KeyError
Lookup(res, s) ==
    IF res.kind = "None" THEN "TypeError"
    ELSE IF s \notin Keys(res.events) THEN "KeyError"
    ELSE "none"

First(a, b) == IF a # "none" THEN a ELSE b

\* the dictionary lookups of one iteration, in the order the branch makes them
PositionFailure(i, type, greeks, summary) ==
    CASE type = "EQUITY_OPTION" -> First(Lookup(summary, i), Lookup(greeks, i))
      [] type = "FUTURE_OPTION" -> First(Lookup(summary, ES), Lookup(greeks, i))
      [] type \in {"EQUITY", "FUTURE", "CRYPTOCURRENCY"} -> Lookup(summary, i)
      [] OTHER -> "none"

\* for i, pos in enumerate(positions): ... sums.positions.append(ps)
RECURSIVE Pass(_, _, _, _, _)
Pass(i, pos, greeks, summary, included) ==
    IF i > Len(pos) THEN [included |-> included, failure |-> "none"]
    ELSE IF pos[i] = "UNKNOWN" THEN Pass(i + 1, pos, greeks, summary, included)
    ELSE LET f == PositionFailure(i, pos[i], greeks, summary)
         IN  IF f # "none" THEN [included |-> included, failure |-> f]
             ELSE Pass(i + 1, pos, greeks, summary, included \cup {i})

\* from the call to the creation of the three tasks: the session check, the
\* positions fetch ('if not positions: return []'), the reference-data group
GetPositionsCall ==
    /\ gpc = "called"
    /\ \E fetched \in BOOLEAN :
        IF ~fetched
        THEN /\ gpc' = "failed"
             /\ gfailure' = "Exception"
             /\ UNCHANGED <<gresult, listenVars>>
        ELSE IF gpositions = <<>>
        THEN /\ gpc' = "done"
             /\ gresult' = "list"
             /\ UNCHANGED <<gfailure, listenVars>>
        ELSE /\ gpc' = "group"
             /\ lsymbols' = [c \in EventTypes |-> TaskSymbols(c, gpositions)]
             /\ lretry' = [c \in EventTypes |-> IF c \in Tasks THEN DefaultRetry ELSE 0]
             /\ lbudget' = lretry'
             /\ lpc' = [c \in EventTypes |-> IF c \in Tasks THEN "connecting" ELSE "idle"]
             /\ UNCHANGED <<ldata, lresult, lattempts, lfailed, silent, streamValues,
                            gfailure, gresult>>
    /\ UNCHANGED <<gpositions, ganalytics, gincluded, notPositions>>

\* leaving 'async with asyncio.TaskGroup()': a task that raised cancels the
\* others and the group raises; otherwise the results are read,
\* spy = spy_dict['SPY'], and the market metrics are awaited
JoinGroup ==
    /\ gpc = "group"
    /\ \/ \E c \in Tasks : lpc[c] = "raised"
       \/ \A c \in Tasks : lpc[c] = "returned"
    /\ IF \E c \in Tasks : lpc[c] = "raised"
       THEN /\ gpc' = "failed"
            /\ gfailure' = "ExceptionGroup"
            /\ lpc' = [c \in EventTypes |->
                         IF c \in Tasks /\ ~Ended(c) THEN "cancelled" ELSE lpc[c]]
       ELSE /\ gfailure' = Lookup(lresult["Trade"], SPY)
            /\ gpc' = IF gfailure' = "none" THEN "metrics" ELSE "failed"
            /\ UNCHANGED lpc
    /\ UNCHANGED <<lsymbols, lretry, lbudget, ldata, lresult, lattempts, lfailed,
                   silent, streamValues>>
    /\ UNCHANGED <<gpositions, ganalytics, gincluded, gresult, notPositions>>

\* sums = PositionsSummary(); the loop over the positions; return sums
AnalyticsPass ==
    /\ gpc = "metrics"
    /\ ganalytics' = TRUE
    /\ LET r == Pass(1, gpositions, lresult["Greeks"], lresult["Summary"], {})
       IN  /\ gincluded' = r.included
           /\ gfailure' = r.failure
           /\ gpc' = IF r.failure = "none" THEN "done" ELSE "failed"
           /\ gresult' = IF r.failure = "none" THEN "summary" ELSE "none"
    /\ UNCHANGED <<gpositions, listenVars, notPositions>>

--------------------------------------------------------------------------
(* The analytics loop of get_positions, one iteration at a time.  Money    *)
(* amounts are whole numbers.                                              *)

\* an optional argument: None, or Some(v)
None == <<>>
Some(v) == <<v>>
Val(o) == o[1]
\* 'not x' for an optional number: None or zero
Falsy(o) == o = None \/ Val(o) = 0

\* calls of get_positions on one account
MaxCalls == 2

\* calendar dates: created_at.date() of a position and today_in_new_york()
Days == {1, 2}

\* the broker's data of one position, with the display_factor or
\* notional_multiplier of its future as factor
PositionData ==
    [created : Days, direction : {1, -1}, mark_price : {3},
     close_price_prev : {None, Some(1)}, quantity : {2}, multiplier : {3},
     average_open_price : {2}, factor : {2},
     greeks : {[delta |-> 1, theta |-> -1, gamma |-> 2]}, beta : {2}]

\* x or ZERO
OrZero(o) == IF o = None THEN 0 ELSE Val(o)

\* ps.day_change = mark_price - (ps.close_price_prev or ZERO)
DayChange(d) == d.mark_price - OrZero(d.close_price_prev)

\* ps.pnl_day as the branch of the instrument type computes it
PnlDay(type, d) ==
    IF type = "EQUITY" THEN DayChange(d) * d.quantity
    ELSE DayChange(d) * d.quantity * d.multiplier

\* ps.pnl_total as the branch of the instrument type computes it; mark is
\* the broker's mark_price * quantity * multiplier
PnlTotal(type, d) ==
    LET mark == d.mark_price * d.quantity * d.multiplier
    IN  CASE type = "EQUITY_OPTION" ->
                d.direction * (d.mark_price - d.average_open_price) * d.multiplier
          [] type = "FUTURE_OPTION" ->
                d.direction * (d.mark_price - (d.average_open_price \div d.factor))
          [] type = "FUTURE" ->
                d.direction * (d.mark_price - d.average_open_price * d.factor)
                    * d.quantity
          [] OTHER ->
                mark - d.average_open_price * d.quantity * d.direction

Options == {"EQUITY_OPTION", "FUTURE_OPTION"}

\* ps.delta, ps.theta, ps.gamma
Delta(type, d) ==
    CASE type \in Options -> d.greeks.delta * d.multiplier * d.direction
      [] type = "EQUITY" -> d.quantity * d.direction
      [] type = "FUTURE" -> d.quantity * d.direction * d.multiplier
      [] OTHER -> 0

Theta(type, d) ==
    IF type \in Options THEN d.greeks.theta * d.multiplier * d.direction ELSE 0

Gamma(type, d) ==
    IF type \in Options THEN d.greeks.gamma * d.multiplier * d.direction ELSE 0

\* ps.beta_weighted_delta = beta * price * ps.delta / spy_price, the price
\* being the one the branch takes
BetaWeightedDelta(type, d, spy_price) ==
    LET mark == d.mark_price * d.quantity * d.multiplier
    IN  CASE type = "EQUITY_OPTION" ->
                (d.beta * mark * Delta(type, d)) \div spy_price
          [] type = "FUTURE_OPTION" ->
                (d.beta * OrZero(d.close_price_prev) * Delta(type, d)) \div spy_price
          [] type \in {"EQUITY", "FUTURE"} ->
                (d.beta * d.mark_price * Delta(type, d)) \div spy_price
          [] OTHER -> 0

\* ps.net_liquidity
NetLiquidity(type, d) ==
    IF type \in {"EQUITY", "CRYPTOCURRENCY"} THEN d.mark_price * d.quantity
    ELSE d.mark_price * d.quantity * d.multiplier

\* the scalar fields of a PositionsSummary
SumFields ==
    {"net_liquidity", "pnl_total", "pnl_day", "delta", "theta", "gamma",
     "beta_weighted_delta"}

\* PositionsSummary(): every scalar field Decimal(0)
PositionsSummary == [f \in SumFields |-> 0]

\* the sums with the Greeks left out
AddWithoutGreeks(sums, ps) ==
    [f \in SumFields |->
        IF f \in {"delta", "theta", "gamma"} THEN sums[f] ELSE sums[f] + ps[f]]

\* sums.pnl_total += ps.pnl_total ... sums.beta_weighted_delta +=
\* ps.beta_weighted_delta
AddPosition(sums, ps) == [f \in SumFields |-> sums[f] + ps[f]]

\* the day P&L kept as computed
OverrideDropped(created, today, pnl_day, pnl_total) == pnl_day

\* if ps.created_at.date() == today: ps.pnl_day = ps.pnl_total
OverrideDay(created, today, pnl_day, pnl_total) ==
    IF created = today THEN pnl_total ELSE pnl_day

\* ps after the branch of the instrument type and the override: the fields
\* a known type's branch derives for position i from the broker's data d
Derive(i, type, d, today, spy_price) ==
    [index |-> i, type |-> type, created |-> d.created,
     computed_pnl_day |-> PnlDay(type, d),
     pnl_total |-> PnlTotal(type, d),
     pnl_day |-> OverrideDay(d.created, today, PnlDay(type, d), PnlTotal(type, d)),
     net_liquidity |-> NetLiquidity(type, d),
     delta |-> Delta(type, d),
     theta |-> Theta(type, d),
     gamma |-> Gamma(type, d),
     beta_weighted_delta |-> BetaWeightedDelta(type, d, spy_price)]

\* one iteration of 'for i, pos in enumerate(positions)': the branch of the
\* instrument type ('continue' for an unknown one), the override, the sums
\* and sums.positions.append(ps)
AnalysePosition ==
    /\ gpc = "loop"
    /\ gindex <= Len(gpositions)
    /\ LET type == gpositions[gindex]
           f == PositionFailure(gindex, type, lresult["Greeks"], lresult["Summary"])
       IN  IF type = "UNKNOWN"
           THEN /\ gindex' = gindex + 1
                /\ UNCHANGED <<gpc, gfailure, gincluded, gsums, gtotals>>
           ELSE IF f # "none"
           THEN /\ gpc' = "failed"
                /\ gfailure' = f
                /\ UNCHANGED <<gindex, gincluded, gsums, gtotals>>
           ELSE \E d \in PositionData :
                LET ps == Derive(gindex, type, d, gtoday, lresult["Trade"].events[SPY])
                IN /\ gsums' = Append(gsums, ps)
                   /\ gtotals' = AddPosition(gtotals, ps)
                   /\ gincluded' = gincluded \cup {gindex}
                   /\ gindex' = gindex + 1
                   /\ UNCHANGED <<gpc, gfailure>>
    /\ UNCHANGED <<gpositions, ganalytics, gresult, gtoday, gbroker, gcalls,
                   listenVars, valVars, webVars, orderVars, resolveVars,
                   closeVars, sessVars>>

\* return sums
ReturnSums ==
    /\ gpc = "loop"
    /\ gindex > Len(gpositions)
    /\ gpc' = "done"
    /\ gresult' = "summary"
    /\ UNCHANGED <<gpositions, gfailure, ganalytics, gincluded, loopVars,
                   listenVars, valVars, webVars, orderVars, resolveVars,
                   closeVars, sessVars>>

--------------------------------------------------------------------------
(* get_positions called again on the same positions, reference data and    *)
(* market data: each call as one step, the streams complete.               *)

\* a positions list that an earlier summary's list object is shared with
SharedPositions(previous) ==
    IF previous = <<>> THEN <<>> ELSE previous[Len(previous)].summary.positions

\* sums = PositionsSummary(): positions comes from field(default_factory=list),
\* a new empty list for every summary
NewPositions(previous) == <<>>

\* ps = Position(pos): __init__ passes vars(curPos) to a new object, so the
\* assignments to ps leave pos, the broker's record, as it was
AfterPass(pos, ps) == pos

\* the loop over the positions: the summary it builds
RECURSIVE Loop(_, _, _, _, _, _)
Loop(i, positions, broker, today, spy_price, sums) ==
    IF i > Len(positions) THEN sums
    ELSE IF positions[i] = "UNKNOWN"
    THEN Loop(i + 1, positions, broker, today, spy_price, sums)
    ELSE LET ps == Derive(i, positions[i], broker[i], today, spy_price)
         IN  Loop(i + 1, positions, broker, today, spy_price,
                  [positions |-> Append(sums.positions, ps),
                   totals |-> AddPosition(sums.totals, ps)])

\* a whole call of get_positions on the account, on a date not before the
\* date of the call before it
GetPositionsAgain ==
    /\ gpc = "again"
    /\ Len(gcalls) < MaxCalls
    /\ \E today \in Days :
          /\ gcalls # <<>> => today >= gcalls[Len(gcalls)].today
          /\ LET spy_price == lresult["Trade"].events[SPY]
                 sums == Loop(1, gpositions, gbroker, today, spy_price,
                              [positions |-> NewPositions(gcalls),
                               totals |-> PositionsSummary])
                 left == [i \in DOMAIN gbroker |->
                            IF gpositions[i] = "UNKNOWN" THEN gbroker[i]
                            ELSE AfterPass(gbroker[i],
                                     Derive(i, gpositions[i], gbroker[i], today,
                                            spy_price))]
             IN  /\ gcalls' = Append(gcalls,
                        [today |-> today, records |-> left, summary |-> sums])
                 /\ gbroker' = left
    /\ UNCHANGED <<gtoday, gindex, gsums, gtotals, posVars, listenVars, valVars,
                   webVars, orderVars, resolveVars,
                   closeVars, sessVars>>

--------------------------------------------------------------------------
(* Webhook requests: main.webhook -> Event.trigger -> Action.set_data ->    *)
(* TastyTrade.run.  The handlers of concurrent requests are coroutines on  *)
(* one event loop: a step below runs from one await to the next.  One      *)
(* event with one linked TastyTrade action is registered.                  *)

MaxRequests == 2
Requests == 1..MaxRequests

NoRef == 0

\* payloads the requests carry
WebhookPayloads ==
    [key : {"present"}, ticker : {"ok"}, price : {"ok", "bad"},
     timestamp : {"ok"}, option_type : {"call"},
     action : {"STO", "BTO", "STC"}, quantity : {"pos"},
     expiration : {"ok"}, dte : {ABSENT}, strike : {"ok"}, delta : {ABSENT}]

NoLocal == [origin |-> NoRef, data |-> NoData]

\* what get_positions gave run, and how the closing checks of run came out
PositionsOutcomes == {"summary", "list", "raised"}
MatchOutcomes ==
    {"no_ticker", "no_strike", "no_expiration", "multiple", "short", "matched"}

\* the data run builds the order from after 'await tt_session.get_positions()'
OrderSourceShared(r) ==
    [origin |-> raw_data, data |-> TypedData(wpayload[raw_data])]

\* run passes the fields of its local variable data
OrderSource(r) == wdata[r]

\* trigger: action.set_data(data); await action.run(), up to run's first
\* suspension: get_webhook_data() on self._raw_data, the except branch that
\* reports str(self._raw_data), or the calls up to 'await get_positions()'
Trigger(r) ==
    /\ wpc[r] = "pending"
    /\ raw_data' = r
    /\ LET res == get_webhook_data(wpayload[raw_data'])
       IN  /\ wpayload' = [wpayload EXCEPT ![raw_data'] = res.payload]
           /\ IF res.outcome = "ok"
              THEN /\ wdata' = [wdata EXCEPT ![r] =
                                   [origin |-> raw_data', data |-> res.data]]
                   /\ wpc' = [wpc EXCEPT ![r] = "positions"]
                   /\ UNCHANGED wreport
              ELSE /\ wreport' = [wreport EXCEPT ![r] =
                                     [kind |-> "validation", origin |-> raw_data']]
                   /\ wpc' = [wpc EXCEPT ![r] = "done"]
                   /\ UNCHANGED wdata
    /\ UNCHANGED <<winput, worder, wmatch, notWebhook>>

\* run after get_positions: ps.positions, the closing checks, the report or
\* the call of send_openinng_option_order for STO and BTO
AfterPositions(r) ==
    /\ wpc[r] = "positions"
    /\ \E got \in PositionsOutcomes, m \in MatchOutcomes :
        /\ wmatch' = [wmatch EXCEPT ![r] =
                         IF got = "summary" /\ wdata[r].data["action"] \in {"STC", "BTC"}
                         THEN m ELSE "none"]
        /\ LET action  == wdata[r].data["action"]
               closing == action \in {"STC", "BTC"}
           IN
            IF got # "summary"
            THEN \* get_positions raised, or returned [] and ps.positions raised
                 /\ wpc' = [wpc EXCEPT ![r] = "raised"]
                 /\ UNCHANGED <<worder, wreport>>
            ELSE IF closing /\ m = "no_expiration"
            THEN \* position = expiration_positions[0] on an empty list
                 /\ wpc' = [wpc EXCEPT ![r] = "raised"]
                 /\ UNCHANGED <<worder, wreport>>
            ELSE IF closing /\ (m \in {"no_ticker", "no_strike", "multiple"}
                                \/ (m = "short" /\ action = "STC"))
            THEN /\ wreport' = [wreport EXCEPT ![r] =
                                   [kind |-> "position", origin |-> wdata[r].origin]]
                 /\ wpc' = [wpc EXCEPT ![r] = "done"]
                 /\ UNCHANGED worder
            ELSE IF action \in {"STO", "BTO"}
            THEN /\ worder' = [worder EXCEPT ![r] = OrderSource(r)]
                 /\ wpc' = [wpc EXCEPT ![r] = "ordering"]
                 /\ UNCHANGED wreport
            ELSE /\ wpc' = [wpc EXCEPT ![r] = "done"]
                 /\ UNCHANGED <<worder, wreport>>
    /\ UNCHANGED <<raw_data, winput, wpayload, wdata, notWebhook>>

\* send_openinng_option_order returned (or raised) and run ends
AfterOrder(r) ==
    /\ wpc[r] = "ordering"
    /\ \E ended \in {"done", "raised"} : wpc' = [wpc EXCEPT ![r] = ended]
    /\ UNCHANGED <<raw_data, winput, wpayload, wdata, worder, wreport, wmatch,
                   notWebhook>>

--------------------------------------------------------------------------
(* send_openinng_option_order and send_closing_option_order.               *)

OrderTypes == {"MARKET", "LIMIT", "STOP"}

OpeningRequests ==
    [kind : {"open"}, is_future : BOOLEAN, option_type : {"CALL", "PUT"},
     quantity : {-1, 0, 1}, strike : {None, Some(600)},
     delta : {None, Some(30), Some(120)},
     expiration : {None, Some("date")}, dte : {None, Some(365)},
     width : {None, Some(0), Some(2)},
     order_type : OrderTypes, stop_price : {None, Some("set")}, price : {None}]

ClosingRequests ==
    [kind : {"close"}, is_future : {FALSE}, option_type : {"CALL", "PUT"},
     quantity : {-1, 0, 1}, strike : {None}, delta : {None},
     expiration : {None}, dte : {None}, width : {None},
     order_type : OrderTypes, stop_price : {None}, price : {None, Some("set")}]

NoRequest ==
    [kind |-> "none", is_future |-> FALSE, option_type |-> "CALL",
     quantity |-> 0, strike |-> None, delta |-> None, expiration |-> None,
     dte |-> None, width |-> None, order_type |-> "MARKET",
     stop_price |-> None, price |-> None]

Abs(x) == IF x < 0 THEN -x ELSE x

Range(seq) == {seq[i] : i \in 1..Len(seq)}

Msg(cond, m) == IF cond THEN <<m>> ELSE <<>>

\* the argument checks of send_openinng_option_order, in order
OpeningArgErrors(q) ==
       Msg(q.quantity = 0, "Quantity cannot be zero or None.")
    \o Msg(q.order_type = "STOP" /\ q.stop_price = None,
           "Specify stop price for stop orders.")
    \o Msg(q.expiration = None /\ q.dte = None,
           "Specify either expiration or dte for the option.")
    \o Msg(q.strike # None /\ q.delta # None,
           "Specify either delta or strike, but not both.")
    \o Msg(Falsy(q.strike) /\ Falsy(q.delta),
           "Specify either delta or strike for the option.")
    \o Msg(q.delta # None /\ Abs(IF q.delta = None THEN 0 ELSE Val(q.delta)) > 99,
           "Delta value is too high, -99 <= delta <= 99.")
    \o Msg(q.width # None /\ (IF q.width = None THEN 1 ELSE Val(q.width)) <= 0,
           "Width must be a positive integer where 1 means next strike etc.")
    \o Msg(q.width # None /\ q.order_type = "MARKET",
           "Width (ie spread) is not supported for market orders.")

\* the argument checks of send_closing_option_order
ClosingArgErrors(q) ==
       Msg(q.order_type \notin {"LIMIT", "MARKET"}, "Invalid order type.")
    \o Msg(q.order_type = "LIMIT" /\ q.price = None,
           "Specify price for limit orders.")
    \o Msg(q.quantity = 0, "Quantity cannot be zero or None.")

\* which branch picks the expiration sub-chain: by exact date or by nearest dte
SubchainBy(q) ==
    IF q.is_future
    THEN IF q.expiration # None THEN "expiration" ELSE "dte"
    ELSE IF q.dte = None THEN "expiration" ELSE "dte"

\* tick_size is assigned in the dte branches only
TickSizeDefined(q) == SubchainBy(q) = "dte"

\* the order handed to place_order
OrderOf(q) ==
    [kind |-> q.kind, order_type |-> q.order_type, quantity |-> Abs(q.quantity),
     action |-> IF q.kind = "open"
                THEN (IF q.quantity < 0 THEN "SELL_TO_OPEN" ELSE "BUY_TO_OPEN")
                ELSE (IF q.quantity < 0 THEN "SELL_TO_CLOSE" ELSE "BUY_TO_CLOSE"),
     spread |-> q.width # None]

\* the statement that follows a dry run the broker accepted / rejected:
\* 'return' in both branches of the try, in both functions
AfterDryRunOk == "return"

AfterDryRunErrorFallsThrough == "live"

AfterDryRunError == "return"

\* try: place_order(dry_run=True) ... ; place_order(dry_run=False); the
\* classification of its response
Submission(q, dry, live) ==
    LET order == OrderOf(q)
        next  == IF dry = "ok" THEN AfterDryRunOk ELSE AfterDryRunError
        first == <<[dry_run |-> TRUE, order |-> order]>>
        told  == IF dry = "error" THEN <<"ERROR dry run">>
                 ELSE IF q.kind = "open" THEN <<"SUCCESS dry run">>
                 ELSE <<>>
    IN  IF next = "return"
        THEN [calls |-> first, reports |-> told]
        ELSE [calls   |-> Append(first, [dry_run |-> FALSE, order |-> order]),
              reports |-> told \o
                  (CASE live = "errors"   -> <<"ERROR order placement failed">>
                     [] live = "warnings" -> <<"WARNING", "SUCCESS order placed">>
                     [] OTHER             -> <<"SUCCESS order placed">>)]

\* from the call to the first await: the argument checks and the choice of
\* the expiration sub-chain (opening); the argument checks (closing)
CheckArguments ==
    /\ opc = "called"
    /\ \E found \in BOOLEAN :
        LET q    == oreq
            errs == IF q.kind = "close" THEN ClosingArgErrors(q)
                    ELSE OpeningArgErrors(q)
                         \o Msg(SubchainBy(q) = "expiration" /\ ~found,
                                "Expiration not found.")
        IN  IF q.kind = "open" /\ q.is_future /\ q.expiration = None /\ q.dte = None
            THEN \* abs(exp.days_to_expiration - dte) with dte None
                 opc' = "raised" /\ UNCHANGED oreports
            ELSE IF Len(errs) > 0
            THEN opc' = "done" /\ oreports' = Append(oreports, "ERROR arguments")
            ELSE opc' = "resolving" /\ UNCHANGED oreports
    /\ osubchain' = IF oreq.kind = "open" THEN SubchainBy(oreq) ELSE "none"
    /\ UNCHANGED <<oreq, odry, ocalls, notOrder>>

\* strike or delta resolution, the spread's second leg, the quotes and the
\* rounded mid price (opening); the option lookup and the balances (closing)
ResolveOutcomes == {"ok", "raised", "insufficient_strikes"}

Resolve ==
    /\ opc = "resolving"
    /\ \E env \in ResolveOutcomes :
        LET q == oreq
        IN  IF env = "raised"
            THEN opc' = "raised" /\ UNCHANGED oreports
            ELSE IF q.kind = "open" /\ q.width # None /\ env = "insufficient_strikes"
            THEN opc' = "done" /\ oreports' = Append(oreports, "ERROR no second leg")
            ELSE IF q.kind = "open" /\ q.order_type \in {"LIMIT", "MARKET"}
                    /\ ~TickSizeDefined(q)
            THEN \* round_to_width(mid, tick_size) with tick_size unassigned
                 opc' = "raised" /\ UNCHANGED oreports
            ELSE opc' = "priced" /\ UNCHANGED oreports
    /\ UNCHANGED <<oreq, odry, ocalls, osubchain, notOrder>>

\* building the order, the dry run and what follows it, without an await
Submit ==
    /\ opc = "priced"
    /\ \E dry \in {"ok", "error"}, live \in {"clean", "warnings", "errors"} :
        LET sub == Submission(oreq, dry, live)
        IN  /\ odry' = dry
            /\ ocalls' = ocalls \o sub.calls
            /\ oreports' = oreports \o sub.reports
    /\ opc' = "done"
    /\ UNCHANGED <<oreq, osubchain, notOrder>>

--------------------------------------------------------------------------
(* close_all_option_positions: the loop over the account's positions, one  *)
(* iteration (with its whole send_closing_option_order call) per step.     *)

\* send_closing_option_order(pos.symbol, pos.quantity, OrderType.MARKET):
\* pos.quantity is the broker's unsigned quantity, the side of the position
\* being pos.quantity_direction
ClosingCall(pos) ==
    [NoRequest EXCEPT !.kind = "close", !.quantity = pos.quantity,
                      !.order_type = "MARKET"]

\* the place_order calls of one send_closing_option_order call
ClosingCalls(q, dry, live) ==
    IF ClosingArgErrors(q) # <<>> THEN <<>> ELSE Submission(q, dry, live).calls

CloseNext ==
    /\ cpc = "loop"
    /\ cindex <= Len(gpositions)
    /\ IF gpositions[cindex] = "EQUITY_OPTION"
       THEN \E dry \in {"ok", "error"}, live \in {"clean", "warnings", "errors"} :
               LET calls == ClosingCalls(ClosingCall(gbroker[cindex]), dry, live)
               IN  csent' = csent \o
                       [k \in 1..Len(calls) |->
                           [position |-> cindex, dry_run |-> calls[k].dry_run,
                            order |-> calls[k].order]]
       ELSE UNCHANGED csent
    /\ cindex' = cindex + 1
    /\ UNCHANGED <<cpc, valVars, listenVars, posVars, loopVars, webVars,
                   orderVars, resolveVars, sessVars>>

\* the loop is through and the function returns
CloseAllReturn ==
    /\ cpc = "loop"
    /\ cindex > Len(gpositions)
    /\ cpc' = "done"
    /\ UNCHANGED <<cindex, csent, valVars, listenVars, posVars, loopVars,
                   webVars, orderVars, resolveVars, sessVars>>

--------------------------------------------------------------------------
(* TastytradeSession.get_session.  Session objects are numbered in the     *)
(* order of their creation; the account list is known by the number of the *)
(* session it was loaded with.  The function has no await: a call is one   *)
(* step.                                                                   *)

\* get_session calls in a sequence
MaxSessionCalls == 5

\* TastytradeSession.session is None
NoSession == 0

NoCall ==
    [number |-> 0, outcome |-> "none", returned |-> NoSession,
     authenticated |-> FALSE, valid |-> FALSE, session |-> NoSession,
     accounts |-> NoSession]

\* TastytradeSession.accounts = [acc for acc in Account.get_accounts(
\* TastytradeSession.session) if not acc.is_closed]
AccountsLoaded(session, accounts) == session

\* one call: the cached session's validate(), and when a new session is
\* needed the login (get_credentials and Session(username, password)) and
\* the loading of the accounts, each of which may raise
GetSession ==
    /\ slast.number < MaxSessionCalls
    /\ \E valid \in BOOLEAN, login \in {"ok", "raises"}, load \in {"ok", "raises"} :
        LET call == [NoCall EXCEPT !.number = slast.number + 1, !.valid = valid,
                                   !.session = ssession, !.accounts = saccounts]
        IN  IF ssession = NoSession \/ ~valid
            THEN IF login = "raises"
                 THEN /\ slast' = [call EXCEPT !.outcome = "raised"]
                      /\ UNCHANGED <<ssession, saccounts>>
                 ELSE /\ ssession' = ssession + 1
                      /\ IF load = "raises"
                         THEN /\ slast' = [call EXCEPT !.outcome = "raised",
                                                       !.authenticated = TRUE]
                              /\ UNCHANGED saccounts
                         ELSE /\ saccounts' = AccountsLoaded(ssession', saccounts)
                              /\ slast' = [call EXCEPT !.outcome = "new",
                                                       !.authenticated = TRUE,
                                                       !.returned = ssession']
            ELSE /\ slast' = [call EXCEPT !.outcome = "cached",
                                          !.returned = ssession]
                 /\ UNCHANGED <<ssession, saccounts>>
    /\ UNCHANGED <<valVars, listenVars, posVars, loopVars, webVars, orderVars,
                   resolveVars, closeVars>>

--------------------------------------------------------------------------
(* send_openinng_option_order between the argument checks and the dry run: *)
(* the strike or delta resolution, the spread's second leg, the mid price  *)
(* and the legs.  Deltas are counted in hundredths, so Decimal(delta)/100  *)
(* of a delta argument d is the number d here and Decimal(1) is 100.       *)

MaxStrikes == 3

\* subchain.strikes: strike prices 1..n, contract i has strike price i
Chains == {[i \in 1..n |-> i] : n \in 1..MaxStrikes}

\* delta arguments the argument checks let through (non-zero, abs <= 99)
DeltaArgs == {30, -30, 99, -99}

\* g.delta of a contract: within 0..1 for calls, -1..0 for puts
DeltaGrid == {0, 28, 32, 100}
GreekDeltas(option_type) ==
    IF option_type = "CALL" THEN DeltaGrid ELSE {-x : x \in DeltaGrid}

\* sequences without repetition that list every member of S
Orders(S) ==
    {q \in [1..Cardinality(S) -> S] : \A i, j \in DOMAIN q : i # j => q[i] # q[j]}

NoRequestR ==
    [option_type |-> "CALL", quantity |-> 0, strike |-> None, delta |-> None,
     width |-> None, order_type |-> "MARKET", strikes |-> <<>>]

NoOut ==
    [target |-> 0, greeks |-> None, primary |-> 0, failure |-> "none",
     spread |-> 0, report |-> "none", legs |-> <<>>,
     quotes |-> None, tick_size |-> None, bid |-> 0, ask |-> 0,
     mid |-> None, price |-> None]

\* delta = Decimal(delta)/Decimal(100)
\* delta = delta if option_type == OptionType.CALL else -delta
NormalizeDelta(option_type, delta) ==
    IF option_type = "CALL" THEN delta ELSE -delta

\* what 'await self._listen_events(Greeks, option_symbols)' can be: a dict
\* with an entry for every contract, in the order the first events arrived,
\* or None after a failed attempt
GreeksResults(option_type, strikes) ==
    {None} \cup
    {Some([i \in DOMAIN o |-> [strike |-> o[i], delta |-> d[o[i]]]]) :
        o \in Orders({strikes[i] : i \in DOMAIN strikes}),
        d \in [{strikes[i] : i \in DOMAIN strikes} -> GreekDeltas(option_type)]}

\* lowest = Decimal(1); greeks_at_strike = None
\* for g in greeks: diff = abs(g.delta - delta)
\*     if diff < lowest: greeks_at_strike = g; lowest = diff
\* the result is the index of greeks_at_strike in greeks, 0 for None
RECURSIVE DeltaLoop(_, _, _, _, _)
DeltaLoop(greeks, i, delta, lowest, at) ==
    IF i > Len(greeks) THEN at
    ELSE LET diff == Abs(greeks[i].delta - delta)
         IN  IF diff < lowest
             THEN DeltaLoop(greeks, i + 1, delta, diff, i)
             ELSE DeltaLoop(greeks, i + 1, delta, lowest, at)

\* the normalisation of the target and the await of the Greeks
GreeksArrive ==
    /\ rpc = "delta"
    /\ \E res \in GreeksResults(rreq.option_type, rreq.strikes) :
          rout' = [rout EXCEPT
                      !.target = NormalizeDelta(rreq.option_type, Val(rreq.delta)),
                      !.greeks = res]
    /\ rpc' = "search"
    /\ UNCHANGED <<rreq, notResolve>>

\* greeks = list(greeks_dict.values()), the loop, and
\* option_at_strike = next(s ... == greeks_at_strike.event_symbol)
DeltaSearch ==
    /\ rpc = "search"
    /\ IF rout.greeks = None
       THEN \* None.values()
            /\ rout' = [rout EXCEPT !.failure = "AttributeError"]
            /\ rpc' = "raised"
       ELSE LET greeks == Val(rout.greeks)
                at     == DeltaLoop(greeks, 1, rout.target, 100, 0)
            IN  IF at = 0
                THEN \* None.event_symbol
                     /\ rout' = [rout EXCEPT !.failure = "AttributeError"]
                     /\ rpc' = "raised"
                ELSE /\ rout' = [rout EXCEPT !.primary = greeks[at].strike]
                     /\ rpc' = "resolved"
    /\ UNCHANGED <<rreq, notResolve>>

\* the strikes of the chain, in the order the chain lists them, that pass a test
RECURSIVE Filter(_, _, _)
Filter(strikes, i, keep) ==
    IF i > Len(strikes) THEN <<>>
    ELSE (IF strikes[i] \in keep THEN <<strikes[i]>> ELSE <<>>)
         \o Filter(strikes, i + 1, keep)

\* sorted(subchain.strikes, key=lambda x: x.strike_price, reverse=True)
RECURSIVE SortedDescending(_)
SortedDescending(S) ==
    IF S = {} THEN <<>>
    ELSE LET m == CHOOSE x \in S : \A y \in S : y <= x
         IN  <<m>> \o SortedDescending(S \ {m})

\* spread_strikes: for a call the strikes above the primary one as the chain
\* lists them, for a put the strikes below it in descending order
SpreadStrikes(option_type, strikes, primary) ==
    IF option_type = "CALL"
    THEN Filter(strikes, 1, {k \in Range(strikes) : k > primary})
    ELSE Filter(SortedDescending(Range(strikes)), 1,
                {k \in Range(strikes) : k < primary})

\* if width: ... if len(spread_strikes) < width: report, return
\*               spread_strike = spread_strikes[width - 1]
SpreadLeg ==
    /\ rpc = "resolved"
    /\ IF Falsy(rreq.width)
       THEN rpc' = "pricing" /\ UNCHANGED rout
       ELSE LET spread_strikes ==
                    SpreadStrikes(rreq.option_type, rreq.strikes, rout.primary)
            IN  IF Len(spread_strikes) < Val(rreq.width)
                THEN /\ rout' = [rout EXCEPT !.report = "ERROR no second leg"]
                     /\ rpc' = "done"
                ELSE /\ rout' = [rout EXCEPT
                                    !.spread = spread_strikes[Val(rreq.width)]]
                     /\ rpc' = "pricing"
    /\ UNCHANGED <<rreq, notResolve>>

\* the quotes and the mid price, here only as far as they decide whether the
\* function goes on: a None from _listen_events or an unassigned tick_size
\* ends it with an exception
Priced ==
    /\ rpc = "pricing"
    /\ \E raised \in BOOLEAN :
          IF raised
          THEN /\ rout' = [rout EXCEPT !.failure = "Exception"]
               /\ rpc' = "raised"
          ELSE rpc' = "building" /\ UNCHANGED rout
    /\ UNCHANGED <<rreq, notResolve>>

OpenAction(quantity) == IF quantity < 0 THEN "SELL_TO_OPEN" ELSE "BUY_TO_OPEN"
OppositeAction(quantity) == IF quantity < 0 THEN "BUY_TO_OPEN" ELSE "SELL_TO_OPEN"

\* option_legs.sort(key=lambda x: x.strike_price, reverse=option_type == PUT)
LegsNeverReversed(option_type) == FALSE

LegsReversed(option_type) == option_type = "PUT"

SortLegs(a, b, reverse) ==
    IF (a < b) # reverse THEN <<a, b>> ELSE <<b, a>>

\* build_leg(abs(quantity), action)
BuildLeg(strike, quantity, action) ==
    [strike |-> strike, quantity |-> Abs(quantity), action |-> action]

\* the legs of the order: the two option_legs of a spread in sorted order,
\* the first with the opening action and the second with the opposite one,
\* or the single leg
BuildLegs ==
    /\ rpc = "building"
    /\ IF Falsy(rreq.width)
       THEN rout' = [rout EXCEPT !.legs =
                <<BuildLeg(rout.primary, rreq.quantity, OpenAction(rreq.quantity))>>]
       ELSE \E fetched \in Orders({rout.primary, rout.spread}) :
              LET option_legs == SortLegs(fetched[1], fetched[2],
                                          LegsReversed(rreq.option_type))
              IN  rout' = [rout EXCEPT !.legs =
                     <<BuildLeg(option_legs[1], rreq.quantity,
                                OpenAction(rreq.quantity)),
                       BuildLeg(option_legs[2], rreq.quantity,
                                OppositeAction(rreq.quantity))>>]
    /\ rpc' = "built"
    /\ UNCHANGED <<rreq, notResolve>>

\* Prices are whole numbers of the smallest price unit; a mid price can fall
\* on a half unit, so the mid is carried as twice its value until rounded.

MaxQuote == 3
MaxTick == 3

Quotes == [bid_price : 0..MaxQuote, ask_price : 0..MaxQuote]

\* what 'await self._listen_events(Quote, symbols)' can be: a dict with the
\* quote of the near leg and, for a spread, of the far leg, or None after a
\* failed attempt
QuoteResults(spread) ==
    {None} \cup
    (IF spread THEN {Some([near |-> n, far |-> f]) : n \in Quotes, f \in Quotes}
     ELSE {Some([near |-> n, far |-> n]) : n \in Quotes})

\* rounding a half upwards instead
RoundHalfUp(n, d) ==
    LET fl  == n \div d
        rem == n - fl * d
    IN  IF 2 * rem < d THEN fl ELSE fl + 1

\* round(Decimal): to the nearest integer, a half to the even neighbour;
\* here of the fraction n / d with d > 0
RoundHalfEven(n, d) ==
    LET fl  == n \div d
        rem == n - fl * d
    IN  IF 2 * rem < d THEN fl
        ELSE IF 2 * rem > d THEN fl + 1
        ELSE IF fl % 2 = 0 THEN fl ELSE fl + 1

\* round_to_width(x, base) == base * round(x / base), x given as twice x
round_to_width(x2, base) == base * RoundHalfEven(x2, 2 * base)

\* mid = mid if quantity < 0 else -mid
SignNeverFlipped(quantity, mid) == mid

SignForQuantity(quantity, mid) == IF quantity < 0 THEN mid ELSE -mid

\* the await of the quotes, for limit and market orders
QuotesArrive ==
    /\ rpc = "quoting"
    /\ rreq.order_type \in {"LIMIT", "MARKET"}
    /\ \E res \in QuoteResults(~Falsy(rreq.width)) :
          rout' = [rout EXCEPT !.quotes = res]
    /\ rpc' = "quoted"
    /\ UNCHANGED <<rreq, notResolve>>

\* bid, ask, mid = (bid + ask) / Decimal(2), the rounding to tick_size, the
\* sign, price = mid
MidPrice ==
    /\ rpc = "quoted"
    /\ IF rout.quotes = None
       THEN \* None[...]
            /\ rout' = [rout EXCEPT !.failure = "TypeError"]
            /\ rpc' = "raised"
       ELSE LET q   == Val(rout.quotes)
                bid == IF Falsy(rreq.width) THEN q.near.bid_price
                       ELSE q.near.bid_price - q.far.ask_price
                ask == IF Falsy(rreq.width) THEN q.near.ask_price
                       ELSE q.near.ask_price - q.far.bid_price
            IN  IF rout.tick_size = None
                THEN \* tick_size was never assigned
                     /\ rout' = [rout EXCEPT !.bid = bid, !.ask = ask,
                                             !.failure = "UnboundLocalError"]
                     /\ rpc' = "raised"
                ELSE LET mid == round_to_width(bid + ask, Val(rout.tick_size))
                     IN  /\ rout' = [rout EXCEPT
                                !.bid = bid, !.ask = ask, !.mid = Some(mid),
                                !.price = Some(SignForQuantity(rreq.quantity, mid))]
                         /\ rpc' = "priced"
    /\ UNCHANGED <<rreq, notResolve>>

\* elif order_type == OrderType.STOP: mid = None; price = mid
NoPrice ==
    /\ rpc = "quoting"
    /\ rreq.order_type = "STOP"
    /\ rpc' = "priced"
    /\ UNCHANGED <<rreq, rout, notResolve>>

--------------------------------------------------------------------------
(* Idle values: the state of a part that a specification does not run.    *)

IdleWebhook ==
    /\ raw_data = NoRef
    /\ winput = [r \in Requests |-> [f \in Fields |-> ABSENT]]
    /\ wpayload = winput
    /\ wpc = [r \in Requests |-> "idle"]
    /\ wdata = [r \in Requests |-> NoLocal]
    /\ worder = [r \in Requests |-> NoLocal]
    /\ wreport = [r \in Requests |-> [kind |-> "none", origin |-> NoRef]]
    /\ wmatch = [r \in Requests |-> "none"]

IdleClose ==
    /\ cpc = "idle"
    /\ cindex = 0
    /\ csent = <<>>

\* the class as TastytradeSessionMeta.__new__ built it: the first session
\* and the open accounts loaded with it
IdleSession ==
    /\ ssession = 1
    /\ saccounts = 1
    /\ slast = NoCall

IdleOrder ==
    /\ oreq = NoRequest
    /\ opc = "idle"
    /\ odry = "none"
    /\ ocalls = <<>>
    /\ oreports = <<>>
    /\ osubchain = "none"

IdleResolve ==
    /\ rreq = NoRequestR
    /\ rpc = "idle"
    /\ rout = NoOut

IdleValidate ==
    /\ vinput = [f \in Fields |-> ABSENT]
    /\ vpayload = vinput
    /\ vresult = NoResult
    /\ vnext = NoResult
    /\ vpc = "idle"

IdleListen ==
    /\ lsymbols = [c \in EventTypes |-> {}]
    /\ lretry = [c \in EventTypes |-> 0]
    /\ lbudget = [c \in EventTypes |-> 0]
    /\ ldata = [c \in EventTypes |-> EmptyDict]
    /\ lpc = [c \in EventTypes |-> "idle"]
    /\ lresult = [c \in EventTypes |-> NotReturned]
    /\ lattempts = [c \in EventTypes |-> 0]
    /\ lfailed = [c \in EventTypes |-> FALSE]
    /\ silent = {}
    /\ streamValues = {1}

IdlePositions ==
    /\ gpositions = <<>>
    /\ gpc = "idle"
    /\ gfailure = "none"
    /\ ganalytics = FALSE
    /\ gincluded = {}
    /\ gresult = "none"
    /\ gtoday = 1
    /\ gindex = 0
    /\ gsums = <<>>
    /\ gtotals = PositionsSummary
    /\ gbroker = <<>>
    /\ gcalls = <<>>

--------------------------------------------------------------------------
(* Validator specification: a payload as a webhook request delivers it     *)
(* (main.py rejects a body without 'key'), then one get_webhook_data call. *)

RawPayloads ==
    [key : {"present"}, ticker : TickerKinds, price : PriceKinds,
     timestamp : TimestampKinds \ {"typed"},
     option_type : OptionTypeKinds \ {"CALL", "PUT"},
     action : ActionKinds, quantity : QuantityKinds,
     expiration : ExpirationKinds \ {"typed"}, dte : DteKinds,
     strike : StrikeKinds, delta : DeltaKinds]

InitValidate ==
    /\ IdleListen /\ IdlePositions /\ IdleWebhook /\ IdleOrder /\ IdleResolve /\ IdleClose /\ IdleSession
    /\ vinput \in RawPayloads
    /\ vpayload = vinput
    /\ vresult = NoResult
    /\ vnext = NoResult
    /\ vpc = "set"

Validate ==
    /\ vpc = "set"
    /\ vresult' = get_webhook_data(vpayload)
    /\ vpayload' = vresult'.payload
    /\ vpc' = "validated"
    /\ UNCHANGED <<vinput, vnext, notValidate>>

\* Event.trigger goes on to the next linked action: set_data(data) with the
\* same payload object, then run() and its get_webhook_data()
ValidateLinked ==
    /\ vpc = "validated"
    /\ vnext' = get_webhook_data(vpayload)
    /\ vpayload' = vnext'.payload
    /\ vpc' = "revalidated"
    /\ UNCHANGED <<vinput, vresult, notValidate>>

NextValidate == Validate

SpecValidate == InitValidate /\ [][NextValidate]_vars

\* one event with two linked actions
NextLinked ==
    \/ Validate
    \/ ValidateLinked

SpecLinked == InitValidate /\ [][NextLinked]_vars

--------------------------------------------------------------------------
(* Specification of one _listen_events call.                               *)

\* one call, with any arguments, on a stream that may stay silent on some symbols
InitListen ==
    /\ IdleValidate /\ IdlePositions /\ IdleWebhook /\ IdleOrder /\ IdleResolve /\ IdleClose /\ IdleSession
    /\ \E c \in EventTypes, syms \in SUBSET Symbols,
          r \in (0..MaxRetry) \cup {DefaultRetry} :
        /\ lsymbols = [e \in EventTypes |-> IF e = c THEN syms ELSE {}]
        /\ lretry = [e \in EventTypes |-> IF e = c THEN r ELSE 0]
        /\ lbudget = lretry
        /\ lpc = [e \in EventTypes |-> IF e = c THEN "connecting" ELSE "idle"]
    /\ ldata = [c \in EventTypes |-> EmptyDict]
    /\ lresult = [c \in EventTypes |-> NotReturned]
    /\ lattempts = [c \in EventTypes |-> 0]
    /\ lfailed = [c \in EventTypes |-> FALSE]
    /\ silent \in SUBSET Symbols
    /\ streamValues = 1..MaxEventValue

NextListen == ListenStep

SpecListen == InitListen /\ [][NextListen]_vars

\* the event loop resumes a coroutine that can run, and the stream keeps
\* delivering events for the symbols it is not silent on; nothing makes a
\* stream fail
FairListen ==
    \A c \in EventTypes :
        /\ WF_vars(Subscribe(c))
        /\ WF_vars(WakeUp(c))
        /\ \A s \in Symbols :
              WF_vars(\E v \in 1..MaxEventValue : Deliver(c, s, v))

FairSpecListen == SpecListen /\ FairListen

--------------------------------------------------------------------------
(* Specification of one get_positions call.                                *)

InitPositions ==
    /\ IdleValidate /\ IdleListen /\ IdleWebhook /\ IdleOrder /\ IdleResolve /\ IdleClose /\ IdleSession
    /\ gpositions \in PositionLists
    /\ gpc = "called"
    /\ gfailure = "none"
    /\ ganalytics = FALSE
    /\ gincluded = {}
    /\ gresult = "none"
    /\ gtoday = 1
    /\ gindex = 0
    /\ gsums = <<>>
    /\ gtotals = PositionsSummary
    /\ gbroker = <<>>
    /\ gcalls = <<>>

NextPositions ==
    \/ GetPositionsCall
    \/ ListenStep
    \/ JoinGroup
    \/ AnalyticsPass

SpecPositions == InitPositions /\ [][NextPositions]_vars

--------------------------------------------------------------------------
(* Specification of concurrent webhook requests.                           *)

InitWebhook ==
    /\ IdleValidate /\ IdleListen /\ IdlePositions /\ IdleOrder /\ IdleResolve /\ IdleClose /\ IdleSession
    /\ raw_data = NoRef
    /\ winput \in [Requests -> WebhookPayloads]
    /\ wpayload = winput
    /\ wpc = [r \in Requests |-> "pending"]
    /\ wdata = [r \in Requests |-> NoLocal]
    /\ worder = [r \in Requests |-> NoLocal]
    /\ wreport = [r \in Requests |-> [kind |-> "none", origin |-> NoRef]]
    /\ wmatch = [r \in Requests |-> "none"]

NextWebhook ==
    \E r \in Requests :
        \/ Trigger(r)
        \/ AfterPositions(r)
        \/ AfterOrder(r)

SpecWebhook == InitWebhook /\ [][NextWebhook]_vars

--------------------------------------------------------------------------
(* Specification of one order call.                                        *)

InitOrder ==
    /\ IdleValidate /\ IdleListen /\ IdlePositions /\ IdleWebhook /\ IdleResolve /\ IdleClose /\ IdleSession
    /\ oreq \in OpeningRequests \cup ClosingRequests
    /\ opc = "called"
    /\ odry = "none"
    /\ ocalls = <<>>
    /\ oreports = <<>>
    /\ osubchain = "none"

NextOrder ==
    \/ CheckArguments
    \/ Resolve
    \/ Submit

SpecOrder == InitOrder /\ [][NextOrder]_vars

--------------------------------------------------------------------------
(* Specification of the resolution by delta target.                        *)

InitDelta ==
    /\ IdleValidate /\ IdleListen /\ IdlePositions /\ IdleWebhook /\ IdleOrder /\ IdleClose /\ IdleSession
    /\ \E t \in {"CALL", "PUT"}, d \in DeltaArgs, ch \in Chains :
          rreq = [NoRequestR EXCEPT !.option_type = t, !.quantity = 1,
                                    !.delta = Some(d), !.strikes = ch]
    /\ rpc = "delta"
    /\ rout = NoOut

NextDelta ==
    \/ GreeksArrive
    \/ DeltaSearch

SpecDelta == InitDelta /\ [][NextDelta]_vars

--------------------------------------------------------------------------
(* Specification of the second leg and the legs of the order, from a       *)
(* resolved primary strike on.                                             *)

\* a chain lists its strikes in any order
ListedChains == UNION {Orders(1..n) : n \in 1..MaxStrikes}

\* width and order type as the argument checks let them through
WidthAndType ==
    ({None} \X OrderTypes) \cup ({Some(1), Some(2)} \X {"LIMIT", "STOP"})

InitSpread ==
    /\ IdleValidate /\ IdleListen /\ IdlePositions /\ IdleWebhook /\ IdleOrder /\ IdleClose /\ IdleSession
    /\ \E t \in {"CALL", "PUT"}, q \in {-2, -1, 1, 2}, ch \in ListedChains,
          wt \in WidthAndType :
          \E k \in Range(ch) :
             /\ rreq = [NoRequestR EXCEPT !.option_type = t, !.quantity = q,
                                          !.strike = Some(k), !.width = wt[1],
                                          !.order_type = wt[2], !.strikes = ch]
             /\ rout = [NoOut EXCEPT !.primary = k]
    /\ rpc = "resolved"

NextSpread ==
    \/ SpreadLeg
    \/ Priced
    \/ BuildLegs

SpecSpread == InitSpread /\ [][NextSpread]_vars

--------------------------------------------------------------------------
(* Specification of the pricing step: from the resolved legs to price.     *)

InitPrice ==
    /\ IdleValidate /\ IdleListen /\ IdlePositions /\ IdleWebhook /\ IdleOrder /\ IdleClose /\ IdleSession
    /\ \E q \in {-1, 1}, wt \in ({None} \X OrderTypes) \cup ({Some(1)} \X {"LIMIT", "STOP"}),
          tick \in {None} \cup {Some(t) : t \in 1..MaxTick} :
          /\ rreq = [NoRequestR EXCEPT !.quantity = q, !.strike = Some(1),
                                       !.width = wt[1], !.order_type = wt[2],
                                       !.strikes = <<1, 2>>]
          /\ rout = [NoOut EXCEPT !.primary = 1,
                                  !.spread = IF wt[1] = None THEN 0 ELSE 2,
                                  !.tick_size = tick]
    /\ rpc = "quoting"

NextPrice ==
    \/ QuotesArrive
    \/ MidPrice
    \/ NoPrice

SpecPrice == InitPrice /\ [][NextPrice]_vars

--------------------------------------------------------------------------
(* Specification of the analytics loop: the streaming aggregations have    *)
(* returned (the Greeks one possibly None) and the metrics are there.      *)

Returned(c, pos) ==
    Dict([s \in Symbols |-> IF s \in TaskSymbols(c, pos) THEN 1 ELSE 0])

InitAnalytics ==
    /\ IdleValidate /\ IdleWebhook /\ IdleOrder /\ IdleResolve /\ IdleClose /\ IdleSession
    /\ gpositions \in PositionLists \ {<<>>}
    /\ gpc = "loop"
    /\ gfailure = "none"
    /\ ganalytics = TRUE
    /\ gincluded = {}
    /\ gresult = "none"
    /\ gtoday \in Days
    /\ gindex = 1
    /\ gsums = <<>>
    /\ gtotals = PositionsSummary
    /\ gbroker = <<>>
    /\ gcalls = <<>>
    /\ lsymbols = [c \in EventTypes |-> TaskSymbols(c, gpositions)]
    /\ lretry = [c \in EventTypes |-> IF c \in Tasks THEN DefaultRetry ELSE 0]
    /\ lbudget = lretry
    /\ lpc = [c \in EventTypes |-> IF c \in Tasks THEN "returned" ELSE "idle"]
    /\ \E greeks \in {Returned("Greeks", gpositions), ReturnsNone} :
          lresult = [c \in EventTypes |->
                        IF c = "Greeks" THEN greeks
                        ELSE IF c \in Tasks THEN Returned(c, gpositions)
                        ELSE NotReturned]
    /\ ldata = [c \in EventTypes |-> lresult[c].events]
    /\ lattempts = [c \in EventTypes |-> IF c \in Tasks THEN 1 ELSE 0]
    /\ lfailed = [c \in EventTypes |-> lresult[c] = ReturnsNone]
    /\ silent = {}
    /\ streamValues = {1}

NextAnalytics ==
    \/ AnalysePosition
    \/ ReturnSums

SpecAnalytics == InitAnalytics /\ [][NextAnalytics]_vars

--------------------------------------------------------------------------
(* Specification of repeated calls of get_positions on unchanged data.     *)

RECURSIVE BrokerRecords(_)
BrokerRecords(n) ==
    IF n = 0 THEN {<<>>}
    ELSE {Append(b, d) : b \in BrokerRecords(n - 1), d \in PositionData}

InitAgain ==
    /\ IdleValidate /\ IdleWebhook /\ IdleOrder /\ IdleResolve /\ IdleClose /\ IdleSession
    /\ gpositions \in PositionLists \ {<<>>}
    /\ gbroker \in BrokerRecords(Len(gpositions))
    /\ gcalls = <<>>
    /\ gpc = "again"
    /\ gfailure = "none"
    /\ ganalytics = TRUE
    /\ gincluded = {}
    /\ gresult = "none"
    /\ gtoday = 1
    /\ gindex = 0
    /\ gsums = <<>>
    /\ gtotals = PositionsSummary
    /\ lsymbols = [c \in EventTypes |-> TaskSymbols(c, gpositions)]
    /\ lretry = [c \in EventTypes |-> IF c \in Tasks THEN DefaultRetry ELSE 0]
    /\ lbudget = lretry
    /\ lpc = [c \in EventTypes |-> IF c \in Tasks THEN "returned" ELSE "idle"]
    /\ lresult = [c \in EventTypes |->
                     IF c \in Tasks THEN Returned(c, gpositions) ELSE NotReturned]
    /\ ldata = [c \in EventTypes |-> lresult[c].events]
    /\ lattempts = [c \in EventTypes |-> IF c \in Tasks THEN 1 ELSE 0]
    /\ lfailed = [c \in EventTypes |-> FALSE]
    /\ silent = {}
    /\ streamValues = {1}

NextAgain == GetPositionsAgain

SpecAgain == InitAgain /\ [][NextAgain]_vars

--------------------------------------------------------------------------
(* Specification of one close_all_option_positions call.                   *)

InitCloseAll ==
    /\ IdleValidate /\ IdleListen /\ IdleWebhook /\ IdleOrder /\ IdleResolve /\ IdleSession
    /\ gpositions \in PositionLists
    /\ gbroker \in BrokerRecords(Len(gpositions))
    /\ gcalls = <<>>
    /\ gpc = "idle"
    /\ gfailure = "none"
    /\ ganalytics = FALSE
    /\ gincluded = {}
    /\ gresult = "none"
    /\ gtoday = 1
    /\ gindex = 0
    /\ gsums = <<>>
    /\ gtotals = PositionsSummary
    /\ cpc = "loop"
    /\ cindex = 1
    /\ csent = <<>>

NextCloseAll ==
    \/ CloseNext
    \/ CloseAllReturn

SpecCloseAll == InitCloseAll /\ [][NextCloseAll]_vars

--------------------------------------------------------------------------
(* Specification of a sequence of get_session calls.                       *)

InitSession ==
    /\ IdleValidate /\ IdleListen /\ IdlePositions /\ IdleWebhook /\ IdleOrder
    /\ IdleResolve /\ IdleClose
    /\ ssession = 1
    /\ saccounts = 1
    /\ slast = NoCall

NextSession == GetSession

SpecSession == InitSession /\ [][NextSession]_vars

--------------------------------------------------------------------------
(* Properties of the order submission (SpecOrder).                         *)

\* C1: in send_openinng_option_order and send_closing_option_order a live
\* place_order call (dry_run=False) is made only after a dry-run call for the
\* same order that the broker accepted; when the dry run fails with a broker
\* error, no live call is made for the request.
C1_LiveOnlyAfterDryRunOk ==
    /\ \A j \in DOMAIN ocalls :
          ~ocalls[j].dry_run
              => /\ odry = "ok"
                 /\ \E i \in 1..(j - 1) :
                       ocalls[i].dry_run /\ ocalls[i].order = ocalls[j].order
    /\ odry = "error" => \A j \in DOMAIN ocalls : ocalls[j].dry_run

\* a request whose dry run the broker rejected: the dry-run call is the only
\* call, and the rejection was reported
C1_Witness ==
    /\ opc = "done" /\ odry = "error"
    /\ ocalls = <<[dry_run |-> TRUE, order |-> OrderOf(oreq)]>>
    /\ oreports = <<"ERROR dry run">>

\* C2: in send_openinng_option_order, whenever the dry run succeeds a live
\* place_order call for the same order follows, and its response is then
\* classified as failed (errors) or placed (no errors, warnings alongside).
C2_LiveFollowsDryRunOk ==
    (opc = "done" /\ oreq.kind = "open" /\ odry = "ok")
        => /\ \E j \in DOMAIN ocalls :
                 ~ocalls[j].dry_run /\ ocalls[j].order = OrderOf(oreq)
           /\ oreports[Len(oreports)]
                 \in {"ERROR order placement failed", "SUCCESS order placed"}

--------------------------------------------------------------------------
(* Properties of _listen_events (SpecListen, FairSpecListen).              *)

\* C3: a failed subscribe-and-wait attempt is followed by another, up to the
\* retry budget; a call whose every attempt failed ends by re-raising the
\* last failure (after the first attempt and budget-many retries), and a call
\* with a successful attempt returns that attempt's events.
C3_RetriesUntilBudget ==
    \A c \in EventTypes :
        Ended(c)
            => \/ /\ lpc[c] = "raised"
                  /\ lattempts[c] = lbudget[c] + 1
               \/ /\ lpc[c] = "returned"
                  /\ lattempts[c] <= lbudget[c] + 1
                  /\ lresult[c] = Dict(ldata[c])

\* C4: whenever _listen_events returns without raising, the returned mapping
\* holds one event for every requested symbol.
C4_AllOrNothing ==
    \A c \in EventTypes :
        lpc[c] = "returned"
            => /\ lresult[c].kind = "dict"
               /\ Keys(lresult[c].events) = lsymbols[c]

\* C5: every call of _listen_events eventually finishes (returns or raises),
\* also on a stream that never delivers an event for a requested symbol.
C5_CallFinishes ==
    <>(\A c \in EventTypes : lpc[c] \in {"idle", "returned", "raised"})

--------------------------------------------------------------------------
(* Properties of get_positions (SpecPositions).                            *)

\* C6: the three streaming aggregations all complete before the analytics
\* pass starts, and if any one of them fails the get_positions call fails
\* with that failure and the analytics pass is never run.
C6_GroupAllOrNothing ==
    /\ ganalytics => \A c \in Tasks : lpc[c] = "returned"
    /\ (\E c \in Tasks : lfailed[c])
          => /\ ~ganalytics
             /\ gpc # "done"
             /\ gpc = "failed" => gfailure = "ExceptionGroup"

--------------------------------------------------------------------------
(* Properties of concurrent webhook requests (SpecWebhook).                *)

\* C7: when the handlers of two requests interleave on the one registered
\* action, each run validates, reports on and submits an order for the
\* payload of its own request.
C7_OwnPayload ==
    \A r \in Requests :
        /\ wdata[r] # NoLocal
              => /\ wdata[r].origin = r
                 /\ wdata[r].data = get_webhook_data(winput[r]).data
        /\ worder[r] # NoLocal
              => /\ worder[r].origin = r
                 /\ worder[r].data = get_webhook_data(winput[r]).data
        /\ wreport[r].kind # "none" => wreport[r].origin = r

\* a request submitted its order while the action's _raw_data already held
\* the payload of a later request that is still in flight
C7_Witness ==
    \E r1, r2 \in Requests :
        /\ r1 # r2
        /\ wpc[r1] = "ordering" /\ worder[r1].origin = r1
        /\ raw_data = r2 /\ wpc[r2] = "positions"

--------------------------------------------------------------------------
(* Properties of the validator (SpecValidate).                             *)

Validated == vpc = "validated"

Opening(p) == p["action"] \in {"BTO", "STO"}
Closing(p) == p["action"] \in {"BTC", "STC"}

OneOf(p, f, g)     == Has(p, f) \/ Has(p, g)
ExactlyOne(p, f, g) == Has(p, f) # Has(p, g)

\* every field that is present converts, and the mandatory ones are there
WellFormed(p) ==
    /\ p["ticker"] = "ok" /\ p["price"] = "ok" /\ p["timestamp"] = "ok"
    /\ p["option_type"] \in {"call", "put"} /\ p["quantity"] = "pos"
    /\ p["expiration"] \in {ABSENT, "ok"} /\ p["dte"] \in {ABSENT, "ok"}
    /\ p["strike"] \in {ABSENT, "ok"} /\ p["delta"] \in {ABSENT, "ok"}

\* C8 (as stated): for direction BTO or STO, get_webhook_data succeeds only
\* if exactly one of {strike, delta} and exactly one of {expiration, dte} is
\* present; a payload carrying both members of a pair, or neither, is rejected.
C8_OpeningExactlyOneOfEachPair ==
    (Validated /\ Opening(vinput) /\ vresult.outcome = "ok")
        => /\ ExactlyOne(vinput, "strike", "delta")
           /\ ExactlyOne(vinput, "expiration", "dte")

\* C8 (amended): for direction BTO or STO, get_webhook_data succeeds only if
\* at least one of {strike, delta} and at least one of {expiration, dte} is
\* present (a payload with neither member of a pair is rejected); an otherwise
\* well-formed payload that carries both members of a pair is accepted.
C8_OpeningAtLeastOneOfEachPair ==
    (Validated /\ Opening(vinput))
        => /\ vresult.outcome = "ok"
                => /\ OneOf(vinput, "strike", "delta")
                   /\ OneOf(vinput, "expiration", "dte")
           /\ ( /\ WellFormed(vinput)
                /\ OneOf(vinput, "strike", "delta")
                /\ OneOf(vinput, "expiration", "dte") )
                => vresult.outcome = "ok"

\* an opening payload without strike and delta, otherwise well-formed, was
\* rejected with the aggregated error that names the pair
C8_Witness ==
    /\ Validated /\ Opening(vinput) /\ WellFormed(vinput)
    /\ ~OneOf(vinput, "strike", "delta")
    /\ vresult.aggregated
    /\ vresult.msgs = <<"Either strike or delta must be provided for opening positions.">>

\* C9: for direction BTC or STC, get_webhook_data fails whenever strike or
\* expiration is absent, the error text then holds a message naming each
\* missing field, and it succeeds only when both are present.
C9_ClosingNamesMissingFields ==
    (Validated /\ Closing(vinput))
        => /\ ~Has(vinput, "strike")
                => /\ vresult.outcome # "ok"
                   /\ "Strike must be provided for closing positions."
                          \in Range(vresult.msgs)
           /\ ~Has(vinput, "expiration")
                => /\ vresult.outcome # "ok"
                   /\ "Expiration must be provided for closing positions."
                          \in Range(vresult.msgs)
           /\ vresult.outcome = "ok"
                => Has(vinput, "strike") /\ Has(vinput, "expiration")

\* the messages of the checks a payload fails, stated field by field
FailedChecks(p) ==
       {"Ticker not found in data." : x \in {1} \cap (IF Has(p, "ticker") THEN {} ELSE {1})}
  \cup {"Price not found in data." : x \in {1} \cap (IF Has(p, "price") THEN {} ELSE {1})}
  \cup {"Timestamp not found in data." : x \in {1} \cap (IF Has(p, "timestamp") THEN {} ELSE {1})}
  \cup {"Invalid timestamp format" : x \in {1} \cap (IF p["timestamp"] = "bad" THEN {1} ELSE {})}
  \cup {"Trade action not found in data." : x \in {1} \cap (IF Has(p, "action") THEN {} ELSE {1})}
  \cup {"Quantity not found in data." : x \in {1} \cap (IF Has(p, "quantity") THEN {} ELSE {1})}
  \cup {"Quantity is not an integer" : x \in {1} \cap (IF p["quantity"] = "bad" THEN {1} ELSE {})}
  \cup {"Invalid expiration format" : x \in {1} \cap (IF p["expiration"] = "bad" THEN {1} ELSE {})}
  \cup {"dte is not an integer" : x \in {1} \cap (IF p["dte"] = "bad" THEN {1} ELSE {})}
  \cup {"Delta is not an integer" : x \in {1} \cap (IF p["delta"] = "bad" THEN {1} ELSE {})}

\* C10: for every payload, get_webhook_data either returns a typed
\* WebHookData or fails with the one aggregated error, whose message joins a
\* message for every failed check; it has no other failure outcome.
C10_OnlyAggregatedError ==
    Validated
        => \/ vresult.outcome = "ok"
           \/ /\ vresult.aggregated
              /\ FailedChecks(vinput) \subseteq Range(vresult.msgs)

\* C11: get_webhook_data accepts a payload only if its direction ('action')
\* is one of BTO, STO, BTC, STC; every other direction value is rejected with
\* an error.
C11_DirectionClosedSet ==
    Validated
        => /\ vresult.outcome = "ok" => vinput["action"] \in {"BTO", "STO", "BTC", "STC"}
           /\ (Has(vinput, "action") /\ ~Opening(vinput) /\ ~Closing(vinput))
                 => vresult.outcome # "ok"

--------------------------------------------------------------------------
(* Properties of the resolution by delta target (SpecDelta).               *)

\* C12: when an opening order is resolved by delta target, a contract is
\* always selected, and it is the one whose delta is at the globally minimal
\* absolute difference from the target among the contracts Greeks were
\* received for; among several at the minimal distance the first one
\* encountered is selected.
C12_GlobalMinimum ==
    /\ rpc # "raised"
    /\ rpc = "resolved"
          => LET greeks == Val(rout.greeks)
                 dist(i) == Abs(greeks[i].delta - rout.target)
             IN  \E at \in DOMAIN greeks :
                    /\ greeks[at].strike = rout.primary
                    /\ \A j \in DOMAIN greeks : dist(at) <= dist(j)
                    /\ \A j \in 1..(at - 1) : dist(at) < dist(j)

\* C13: for every delta argument the checks accept (a non-zero integer in
\* -99..99) the target of the delta search is negative for puts, positive
\* for calls, and of magnitude |delta|/100.
C13_SignedTarget ==
    rpc \in {"search", "resolved", "raised"}
        => /\ Abs(rout.target) = Abs(Val(rreq.delta))
           /\ rreq.option_type = "PUT" => rout.target < 0
           /\ rreq.option_type = "CALL" => rout.target > 0

--------------------------------------------------------------------------
(* Properties of the second leg and the legs (SpecSpread).                 *)

\* the strikes of the chain beyond the primary one, on the spread's side
Beyond(option_type, strikes, primary) ==
    IF option_type = "CALL" THEN {k \in Range(strikes) : k > primary}
    ELSE {k \in Range(strikes) : k < primary}

\* strikes on the spread's side that lie between the primary one and k
Nearer(option_type, strikes, primary, k) ==
    IF option_type = "CALL"
    THEN {j \in Beyond(option_type, strikes, primary) : j < k}
    ELSE {j \in Beyond(option_type, strikes, primary) : j > k}

\* C14: for a spread of width N and primary strike K the second leg is the
\* N-th strike above K in ascending order for a call, the N-th strike below
\* K in descending order for a put, in whatever order the chain lists its
\* strikes; with fewer than N strikes on that side the request fails with
\* the insufficient-strikes error and no order is built.
C14_NthStrikeBeyond ==
    (rreq.width # None /\ rpc # "resolved" /\ rpc # "idle" /\ rreq.delta = None)
        => LET side == Beyond(rreq.option_type, rreq.strikes, rout.primary)
           IN  IF Cardinality(side) < Val(rreq.width)
               THEN /\ rpc = "done"
                    /\ rout.report = "ERROR no second leg"
                    /\ rout.legs = <<>>
               ELSE /\ rout.spread \in side
                    /\ Cardinality(Nearer(rreq.option_type, rreq.strikes,
                                          rout.primary, rout.spread))
                          = Val(rreq.width) - 1

\* C19: every leg of a built order has quantity |quantity|; a single leg is
\* SELL_TO_OPEN for a negative quantity and BUY_TO_OPEN for a positive one;
\* in a spread the leg at the primary strike has that action and the leg at
\* the spread strike the opposite opening action, for calls and for puts.
C19_LegActions ==
    rpc = "built"
        => /\ \A i \in DOMAIN rout.legs :
                 rout.legs[i].quantity = Abs(rreq.quantity)
           /\ \E i \in DOMAIN rout.legs :
                 /\ rout.legs[i].strike = rout.primary
                 /\ rout.legs[i].action =
                       (IF rreq.quantity < 0 THEN "SELL_TO_OPEN" ELSE "BUY_TO_OPEN")
           /\ IF rreq.width = None
              THEN Len(rout.legs) = 1
              ELSE /\ Len(rout.legs) = 2
                   /\ \E i \in DOMAIN rout.legs :
                         /\ rout.legs[i].strike = rout.spread
                         /\ rout.legs[i].action =
                               (IF rreq.quantity < 0 THEN "BUY_TO_OPEN"
                                ELSE "SELL_TO_OPEN")

\* a put credit spread was built: short two contracts at the primary strike,
\* long two at the lower spread strike
C19_Witness ==
    /\ rpc = "built" /\ rreq.option_type = "PUT" /\ rreq.quantity = -2
    /\ rout.spread # 0 /\ rout.spread < rout.primary
    /\ rout.legs = <<[strike |-> rout.primary, quantity |-> 2, action |-> "SELL_TO_OPEN"],
                     [strike |-> rout.spread, quantity |-> 2, action |-> "BUY_TO_OPEN"]>>

--------------------------------------------------------------------------
(* Properties of the argument handling of the opening order (SpecOrder).   *)

\* C15: given both an expiration date and a dte, send_openinng_option_order
\* selects the expiration sub-chain by the exact expiration date and ignores
\* the dte, for equity-option and futures-option symbols alike.
C15_ExpirationOverDte ==
    (oreq.kind = "open" /\ opc \notin {"idle", "called"}
       /\ oreq.expiration # None /\ oreq.dte # None)
        => osubchain = "expiration"

\* C16: given both a strike and a delta, send_openinng_option_order resolves
\* the contract by the strike and ignores the delta; the request is not
\* rejected.
C16_StrikeOverDelta ==
    (oreq.kind = "open" /\ opc \notin {"idle", "called"}
       /\ oreq.strike # None /\ oreq.delta # None
       /\ OpeningArgErrors([oreq EXCEPT !.delta = None]) = <<>>
       /\ osubchain = "dte")
        => "ERROR arguments" \notin Range(oreports)

--------------------------------------------------------------------------
(* Properties of the pricing step (SpecPrice).                             *)

\* whole multiples of the tick that a price of the model can be
Multipliers == (-2 * MaxQuote - 1)..(2 * MaxQuote + 1)

\* C17: the computed price magnitude is a whole multiple of the tick size
\* that is nearest to mid = (bid + ask) / 2; when mid lies halfway between
\* two multiples, the one with the even multiplier is chosen.
C17_NearestTickHalfEven ==
    (rpc = "priced" /\ rout.price # None)
        => LET tick == Val(rout.tick_size)
               mid2 == rout.bid + rout.ask
               far(k) == Abs(2 * k * tick - Abs(mid2))
           IN  \E k \in Multipliers :
                  /\ k >= 0
                  /\ Abs(Val(rout.price)) = k * tick
                  /\ \A j \in Multipliers : far(k) <= far(j)
                  /\ (\E j \in Multipliers : j # k /\ far(j) = far(k)) => k % 2 = 0

\* the halfway case: bid 1 and ask 2 at tick size 1 give mid 1.5, halfway
\* between the multiples 1 and 2, and the price magnitude is 2
C17_Witness ==
    /\ rpc = "priced" /\ rout.tick_size = Some(1)
    /\ rout.bid = 1 /\ rout.ask = 2
    /\ Abs(Val(rout.price)) = 2

\* C18 (as stated): the rounded mid is negated when the order opens a short
\* position (negative quantity) and left as it is when it opens a long one.
C18_NegatedForShort ==
    (rpc = "priced" /\ rout.price # None)
        => Val(rout.price) =
              (IF rreq.quantity < 0 THEN -Val(rout.mid) ELSE Val(rout.mid))

\* C18 (amended): the rounded mid is left as it is when the order opens a
\* short position (negative quantity, a credit) and negated when it opens a
\* long position (positive quantity, a debit).
C18_NegatedForLong ==
    (rpc = "priced" /\ rout.price # None)
        => Val(rout.price) =
              (IF rreq.quantity < 0 THEN Val(rout.mid) ELSE -Val(rout.mid))

\* a long single-leg order priced at minus its rounded mid of 2
C18_Witness ==
    /\ rpc = "priced" /\ rreq.quantity > 0 /\ rreq.width = None
    /\ rout.mid = Some(2) /\ rout.price = Some(-2)

--------------------------------------------------------------------------
(* Properties of the analytics loop (SpecAnalytics).                       *)

FiveClasses == {"EQUITY_OPTION", "FUTURE_OPTION", "EQUITY", "FUTURE", "CRYPTOCURRENCY"}

\* C20: in every summary get_positions returns, each position whose creation
\* date equals today's New York calendar date has pnl_day equal to
\* pnl_total, whatever its computed day change was, for all five instrument
\* classes.
C20_CreatedTodayDayIsTotal ==
    gresult = "summary"
        => /\ \A i \in DOMAIN gsums :
                 gsums[i].created = gtoday => gsums[i].pnl_day = gsums[i].pnl_total
           /\ {gsums[i].index : i \in DOMAIN gsums}
                 = {i \in DOMAIN gpositions : gpositions[i] \in FiveClasses}

\* a returned summary holds a position created today whose computed day P&L
\* differed from its total P&L and was replaced by it
C20_Witness ==
    /\ gresult = "summary"
    /\ \E i \in DOMAIN gsums :
          /\ gsums[i].created = gtoday
          /\ gsums[i].computed_pnl_day # gsums[i].pnl_total
          /\ gsums[i].pnl_day = gsums[i].pnl_total

RECURSIVE SumOver(_, _)
SumOver(positions, f) ==
    IF positions = <<>> THEN 0
    ELSE positions[1][f] + SumOver(Tail(positions), f)

\* C21: in every summary get_positions returns, each of the seven scalar
\* sums is the arithmetic sum of that field over exactly the positions in
\* summary.positions; a position of an unknown instrument class is not in
\* summary.positions, adds to no sum, and the loop never fails on it.
C21_SumsOfIncluded ==
    /\ gresult = "summary"
          => /\ \A f \in SumFields : gtotals[f] = SumOver(gsums, f)
             /\ \A i \in DOMAIN gsums : gpositions[gsums[i].index] # "UNKNOWN"
             /\ \A i \in DOMAIN gpositions :
                   gpositions[i] # "UNKNOWN" => \E j \in DOMAIN gsums : gsums[j].index = i
    /\ gpc = "failed" /\ gindex \in DOMAIN gpositions
          => gpositions[gindex] # "UNKNOWN"

\* a returned summary of an account holding an option position and a
\* position of an unknown class: the option's Greeks are in the sums
C21_Witness ==
    /\ gresult = "summary"
    /\ \E i \in DOMAIN gpositions : gpositions[i] = "UNKNOWN"
    /\ Len(gsums) = 1
    /\ gtotals.theta # 0
    /\ gtotals.pnl_day # 0

--------------------------------------------------------------------------
(* Properties of repeated calls of get_positions (SpecAgain).              *)

--------------------------------------------------------------------------
(* Properties of the closing checks of TastyTrade.run (SpecWebhook).       *)

\* the cases of the closing checks in which run is to report an error
ClosingErrorCase(r) ==
    \/ wmatch[r] \in {"no_ticker", "no_strike", "no_expiration", "multiple"}
    \/ wmatch[r] = "short" /\ wdata[r].data["action"] = "STC"

\* C23: for a BTC or STC intent with no option position on the ticker, none
\* at the strike, none at the expiration, more than one match, or (STC) a
\* held quantity below the requested one, run ends with an error report and
\* without an order, never with an unhandled exception.
C23_ClosingErrorsReported ==
    \A r \in Requests :
        ClosingErrorCase(r)
            => /\ wpc[r] = "done"
               /\ wreport[r].kind = "position"
               /\ worder[r] = NoLocal

--------------------------------------------------------------------------
(* Properties of the argument checks and the tick size (SpecOrder).        *)

\* C24: a call of send_openinng_option_order with an invalid argument
\* combination reports the accumulated argument errors and returns without
\* a call of place_order, for equity-option and futures-option symbols.
C24_InvalidArgumentsReported ==
    oreq.kind = "open" /\ opc \notin {"idle", "called"}
                       /\ OpeningArgErrors(oreq) # <<>>
        => /\ opc = "done"
           /\ oreports = <<"ERROR arguments">>
           /\ ocalls = <<>>

\* C25: an opening request that passed the argument checks and is priced
\* (MARKET or LIMIT) has a tick size defined when the mid price is rounded,
\* whether its sub-chain was picked by expiration date or by nearest dte.
C25_TickSizeDefined ==
    oreq.kind = "open" /\ oreq.order_type \in {"MARKET", "LIMIT"}
                       /\ opc \in {"resolving", "priced"}
        => TickSizeDefined(oreq)

--------------------------------------------------------------------------
(* Properties of the value get_positions returns (SpecPositions).          *)

\* C26: whatever get_positions returns is a PositionsSummary, for an account
\* without positions too (an empty position list and zero sums).
C26_ReturnsSummary ==
    gpc = "done" => gresult = "summary"

--------------------------------------------------------------------------
(* Properties of one payload validated by linked actions (SpecLinked).     *)

\* C27: when an event hands the same payload object to several linked
\* actions in turn, each action's get_webhook_data has the outcome of the
\* first one's: a valid payload validates again, with an equal WebHookData.
C27_SameOutcomeAgain ==
    vpc = "revalidated"
        => /\ vnext.outcome = vresult.outcome
           /\ vnext.data = vresult.data

\* C28: every request whose intent passed validation and for which run
\* reported no error ends with an order call: the opening order for STO and
\* BTO, a closing order on the matched position for BTC and STC.  worder is
\* the only order call run makes.
C28_OrderAttempted ==
    \A r \in Requests :
        wpc[r] = "done" /\ wdata[r] # NoLocal /\ wreport[r].kind = "none"
            => worder[r] # NoLocal

--------------------------------------------------------------------------
(* Properties of close_all_option_positions (SpecCloseAll).                *)

SentFor(i) == {k \in DOMAIN csent : csent[k].position = i}

\* C29: close_all_option_positions sends, for every equity-option position
\* and for no other position, exactly one MARKET closing order with the
\* position's quantity whose action closes it: SELL_TO_CLOSE for a long
\* position, BUY_TO_CLOSE for a short one.
C29_ClosesEveryOption ==
    cpc = "done"
        => \A i \in DOMAIN gpositions :
              IF gpositions[i] = "EQUITY_OPTION"
              THEN /\ Cardinality(SentFor(i)) = 1
                   /\ \A k \in SentFor(i) :
                         /\ csent[k].order.order_type = "MARKET"
                         /\ csent[k].order.quantity = gbroker[i].quantity
                         /\ csent[k].order.action =
                               IF gbroker[i].direction = 1 THEN "SELL_TO_CLOSE"
                               ELSE "BUY_TO_CLOSE"
              ELSE SentFor(i) = {}

--------------------------------------------------------------------------
(* Properties of the cached session (SpecSession).                         *)

\* C30: over any sequence of get_session calls, a call authenticates anew
\* only when there is no cached session or the cached one fails validation;
\* otherwise it returns the cached session and leaves the session and the
\* account list as they were; and after every call the account list is the
\* one loaded with the session the call returned.
C30_CachedSession ==
    /\ slast.authenticated => slast.session = NoSession \/ ~slast.valid
    /\ slast.outcome = "cached"
          => /\ slast.returned = slast.session
             /\ ssession = slast.session
             /\ saccounts = slast.accounts
    /\ slast.outcome \in {"cached", "new"} => saccounts = slast.returned

====
